---- MODULE Spec2Model ----
(***************************************************************************)
(* MyPitch: the range-capture state machine and the level/pitch poll loop  *)
(* of the App component (src/unnamed/part_001, the redesigned App; the     *)
(* original is src/src/App.tsx).                                           *)
(*                                                                         *)
(* Units.  Times are milliseconds.  A pitch (midi) is held in cents, 1/100 *)
(* of a semitone: 57.00 is 5700.  A confidence is held in hundredths.  A   *)
(* level is held in 1/10000 of full scale.  Products and quotients that    *)
(* leave this grid are rounded down to it.                                 *)
(***************************************************************************)
EXTENDS Integers, Sequences, FiniteSets, TLC

\* ------------------------------------------------------------- constants
Null == -1

CONFIDENCE_THRESHOLD == 12
CONFIDENCE_PASS_THRESHOLD == 55
CONFIDENCE_PASS_MS == 250
RMS_THRESHOLD == 10
STABLE_REQUIRED_MS == 600
STABLE_NOTE_DELTA == 200
LEVEL_GAIN == 12
SILENCE_RESET_MS == 200
HIGH_STAGE_MIN_DELAY_MS == 200
HIGH_NOTE_MIN_SEMITONES == 50
BLIP_MS == 1200
STABLE_CAPACITY == 20
JUMP_LIMIT == 400
COMFORT_SPAN == 300
MAX_POLL_ERRORS == 20
FULL_SCALE == 10000
POLL_INTERVAL_MS == 100
TOP_N == 5
FALLBACK_RANGE_WIDEN == 4
FALLBACK_COMFORT_WIDEN == 2
GREAT_FIT_SCORE == 90
SINGABLE_SCORE == 75
CHALLENGING_SCORE == 60
MAX_SCORE == 100

\* ---------------------------------------------------------------- bounds
\* The clock stops at MaxTime; the pitch history holds at most MaxHistory
\* entries; at most MaxTicks poll ticks and MaxFlows button handlers are
\* awaiting the backend at once.
MaxTime == 850
MaxHistory == 1
MaxTicks == 2
MaxFlows == 1

\* In the run at the poll cadence the clock stops at MaxHoldTime and the
\* sample source changes its reading at most MaxChanges times.
MaxHoldTime == 1100
MaxChanges == 3

\* With the sample source at will the clock stops at MaxFilterTime when the
\* validity filter is exercised.
MaxFilterTime == 1400

\* The clock stops at MaxCaptureTime in the capture of both notes.
MaxCaptureTime == 900

\* When the stability window is filled fast the clock stops at MaxWindowTime
\* and the reading changes at most MaxWindowChanges times.
MaxWindowTime == 1350
MaxWindowChanges == 2

\* The degraded source runs until this time; each sample handled is 100 ms
\* after the last.
MaxDegradeTime == 300

\* The two Apps are fed this many calls and samples.
MaxEquivSteps == 5

\* ------------------------------------------------------- pure functions
Abs(x) == IF x < 0 THEN -x ELSE x

Max(a, b) == IF a >= b THEN a ELSE b

Min(a, b) == IF a <= b THEN a ELSE b

\* 69 + 12 * log2(f / 440), tabulated to the cent for the frequencies (Hz)
\* the sample source delivers in this model.
frequencyToMidi(freqHz) ==
    CASE freqHz = 220 -> 5700
      [] freqHz = 226 -> 5747
      [] freqHz = 227 -> 5754
      [] freqHz = 262 -> 6002
      [] freqHz = 277 -> 6099
      [] freqHz = 278 -> 6105
      [] freqHz = 440 -> 6900

RECURSIVE Insert(_, _)
Insert(x, sorted) ==
    IF sorted = <<>> THEN <<x>>
    ELSE IF x <= Head(sorted) THEN <<x>> \o sorted
    ELSE <<Head(sorted)>> \o Insert(x, Tail(sorted))

RECURSIVE Sort(_)
Sort(values) ==
    IF values = <<>> THEN <<>> ELSE Insert(Head(values), Sort(Tail(values)))

median(values) ==
    IF Len(values) = 0 THEN 0
    ELSE LET sorted == Sort(values)
             mid == Len(sorted) \div 2
         IN  IF Len(sorted) % 2 = 0
             THEN (sorted[mid] + sorted[mid + 1]) \div 2
             ELSE sorted[mid + 1]

\* ------------------------------------------------- range-test state (rt)
\* The refs and React state of the range test, one field per cell of App.
EmptyStable == [startAt |-> Null, lastValidAt |-> Null, samples |-> <<>>]

NoFastPass == [stage |-> "none", startAt |-> Null]

EmptyRange ==
    [lowMidi |-> Null, highMidi |-> Null,
     comfortLowMidi |-> Null, comfortHighMidi |-> Null]

InitRangeTest ==
    [stageRef |-> "idle",
     testInstruction |-> "click_start",
     lowMidiRef |-> Null,
     highMidiRef |-> Null,
     stageEnteredAtRef |-> 0,
     fastPassRef |-> NoFastPass,
     waitForSilenceBeforeHighRef |-> FALSE,
     silenceStartRef |-> Null,
     stableRef |-> EmptyStable,
     lastGoodPitchRef |-> Null,
     stableHistoryRef |-> <<>>,
     rangeResult |-> EmptyRange,
     awaitingResultStep |-> FALSE,
     stabilityMs |-> 0,
     sampleState |-> "idle"]

\* What a call of the sample handler did: the branch it left by (path), the
\* outcome of completeStageWithMidi when it was called (result) and the
\* candidate pitch handed to it (cand).  Observation only.
Outcome(r, path, result, cand) ==
    [rt |-> r, path |-> path, result |-> result, cand |-> cand]

resetStability(r) ==
    [r EXCEPT !.stableRef = EmptyStable,
              !.lastGoodPitchRef = Null,
              !.stabilityMs = 0,
              !.sampleState = "idle"]

\* A slip in resetRangeTest: line 316, setRangeResult, is missing.
resetRangeTest_keepsResult(r) ==
    resetStability(
        [r EXCEPT !.stageRef = "idle",
                  !.testInstruction = "click_start",
                  !.lowMidiRef = Null,
                  !.highMidiRef = Null,
                  !.stageEnteredAtRef = 0,
                  !.fastPassRef = NoFastPass,
                  !.waitForSilenceBeforeHighRef = FALSE,
                  !.silenceStartRef = Null,
                  !.stableHistoryRef = <<>>,
                  !.awaitingResultStep = FALSE])

\* A slip in resetRangeTest: line 314, the pitch history, is missing.
resetRangeTest_keepsHistory(r) ==
    resetStability(
        [r EXCEPT !.stageRef = "idle",
                  !.testInstruction = "click_start",
                  !.lowMidiRef = Null,
                  !.highMidiRef = Null,
                  !.stageEnteredAtRef = 0,
                  !.fastPassRef = NoFastPass,
                  !.waitForSilenceBeforeHighRef = FALSE,
                  !.silenceStartRef = Null,
                  !.rangeResult = EmptyRange,
                  !.awaitingResultStep = FALSE])

resetRangeTest(r) ==
    resetStability(
        [r EXCEPT !.stageRef = "idle",
                  !.testInstruction = "click_start",
                  !.lowMidiRef = Null,
                  !.highMidiRef = Null,
                  !.stageEnteredAtRef = 0,
                  !.fastPassRef = NoFastPass,
                  !.waitForSilenceBeforeHighRef = FALSE,
                  !.silenceStartRef = Null,
                  !.stableHistoryRef = <<>>,
                  !.rangeResult = EmptyRange,
                  !.awaitingResultStep = FALSE])

\* A slip in finishRangeTest: lines 334-335, the stage, are missing.
finishRangeTest_keepsStage(r) ==
    LET lowMidi == r.lowMidiRef
        highMidi == r.highMidiRef
    IN  IF lowMidi = Null \/ highMidi = Null
        THEN [r EXCEPT !.testInstruction = "did_not_complete",
                       !.stageRef = "idle"]
        ELSE LET center == IF Len(r.stableHistoryRef) > 0
                           THEN median(r.stableHistoryRef)
                           ELSE (lowMidi + highMidi) \div 2
                 comfortLow == Max(lowMidi, center - COMFORT_SPAN)
                 comfortHigh == Min(highMidi, center + COMFORT_SPAN)
             IN  [r EXCEPT !.rangeResult =
                               [lowMidi |-> lowMidi, highMidi |-> highMidi,
                                comfortLowMidi |-> comfortLow,
                                comfortHighMidi |-> comfortHigh],
                           !.testInstruction = "high_captured",
                           !.awaitingResultStep = TRUE]

\* Lines 320-337: the comfort zone and the Done stage.
finishRangeTest(r) ==
    LET lowMidi == r.lowMidiRef
        highMidi == r.highMidiRef
    IN  IF lowMidi = Null \/ highMidi = Null
        THEN [r EXCEPT !.testInstruction = "did_not_complete",
                       !.stageRef = "idle"]
        ELSE LET center == IF Len(r.stableHistoryRef) > 0
                           THEN median(r.stableHistoryRef)
                           ELSE (lowMidi + highMidi) \div 2
                 comfortLow == Max(lowMidi, center - COMFORT_SPAN)
                 comfortHigh == Min(highMidi, center + COMFORT_SPAN)
             IN  [r EXCEPT !.rangeResult =
                               [lowMidi |-> lowMidi, highMidi |-> highMidi,
                                comfortLowMidi |-> comfortLow,
                                comfortHighMidi |-> comfortHigh],
                           !.testInstruction = "high_captured",
                           !.stageRef = "done",
                           !.awaitingResultStep = TRUE]

\* A slip in line 342: the wrong stage literal in the first branch.
completeStageWithMidi_wrongStage(r, stage, stableMidi, timestamp, path) ==
    LET r0 == [resetStability(r) EXCEPT !.fastPassRef = NoFastPass]
    IN  IF stage = "capture_high"
        THEN Outcome([r0 EXCEPT !.lowMidiRef = stableMidi,
                                !.rangeResult.lowMidi = stableMidi,
                                !.testInstruction = "low_captured",
                                !.stageRef = "capture_high",
                                !.stageEnteredAtRef = timestamp,
                                !.waitForSilenceBeforeHighRef = FALSE,
                                !.silenceStartRef = Null],
                     path, "low_captured", stableMidi)
        ELSE IF timestamp - r0.stageEnteredAtRef < HIGH_STAGE_MIN_DELAY_MS
        THEN Outcome(r0, path, "too_early", stableMidi)
        ELSE IF r0.lowMidiRef # Null
                /\ stableMidi < r0.lowMidiRef + HIGH_NOTE_MIN_SEMITONES
        THEN Outcome([r0 EXCEPT !.testInstruction = "too_close"],
                     path, "too_close", stableMidi)
        ELSE LET r1 == finishRangeTest(
                           [r0 EXCEPT !.highMidiRef = stableMidi,
                                      !.rangeResult.highMidi = stableMidi])
             IN  Outcome(r1, path,
                         IF r1.stageRef = "done" THEN "finished"
                                                 ELSE "did_not_complete",
                         stableMidi)

\* A slip in line 340: the stability window is kept when the stage ends.
completeStageWithMidi_keepsWindow(r, stage, stableMidi, timestamp, path) ==
    LET r0 == [r EXCEPT !.fastPassRef = NoFastPass]
    IN  IF stage = "capture_low"
        THEN Outcome([r0 EXCEPT !.lowMidiRef = stableMidi,
                                !.rangeResult.lowMidi = stableMidi,
                                !.testInstruction = "low_captured",
                                !.stageRef = "capture_high",
                                !.stageEnteredAtRef = timestamp,
                                !.waitForSilenceBeforeHighRef = FALSE,
                                !.silenceStartRef = Null],
                     path, "low_captured", stableMidi)
        ELSE IF timestamp - r0.stageEnteredAtRef < HIGH_STAGE_MIN_DELAY_MS
        THEN Outcome(r0, path, "too_early", stableMidi)
        ELSE IF r0.lowMidiRef # Null
                /\ stableMidi < r0.lowMidiRef + HIGH_NOTE_MIN_SEMITONES
        THEN Outcome([r0 EXCEPT !.testInstruction = "too_close"],
                     path, "too_close", stableMidi)
        ELSE LET r1 == finishRangeTest(
                           [r0 EXCEPT !.highMidiRef = stableMidi,
                                      !.rangeResult.highMidi = stableMidi])
             IN  Outcome(r1, path,
                         IF r1.stageRef = "done" THEN "finished"
                                                 ELSE "did_not_complete",
                         stableMidi)

\* A slip in line 348: the entry time of the high stage is not recorded.
completeStageWithMidi_noEntryTime(r, stage, stableMidi, timestamp, path) ==
    LET r0 == [resetStability(r) EXCEPT !.fastPassRef = NoFastPass]
    IN  IF stage = "capture_low"
        THEN Outcome([r0 EXCEPT !.lowMidiRef = stableMidi,
                                !.rangeResult.lowMidi = stableMidi,
                                !.testInstruction = "low_captured",
                                !.stageRef = "capture_high",
                                !.waitForSilenceBeforeHighRef = FALSE,
                                !.silenceStartRef = Null],
                     path, "low_captured", stableMidi)
        ELSE IF timestamp - r0.stageEnteredAtRef < HIGH_STAGE_MIN_DELAY_MS
        THEN Outcome(r0, path, "too_early", stableMidi)
        ELSE IF r0.lowMidiRef # Null
                /\ stableMidi < r0.lowMidiRef + HIGH_NOTE_MIN_SEMITONES
        THEN Outcome([r0 EXCEPT !.testInstruction = "too_close"],
                     path, "too_close", stableMidi)
        ELSE LET r1 == finishRangeTest(
                           [r0 EXCEPT !.highMidiRef = stableMidi,
                                      !.rangeResult.highMidi = stableMidi])
             IN  Outcome(r1, path,
                         IF r1.stageRef = "done" THEN "finished"
                                                 ELSE "did_not_complete",
                         stableMidi)

\* A slip in line 357: the minimum margin is left out of the comparison.
completeStageWithMidi_noMargin(r, stage, stableMidi, timestamp, path) ==
    LET r0 == [resetStability(r) EXCEPT !.fastPassRef = NoFastPass]
    IN  IF stage = "capture_low"
        THEN Outcome([r0 EXCEPT !.lowMidiRef = stableMidi,
                                !.rangeResult.lowMidi = stableMidi,
                                !.testInstruction = "low_captured",
                                !.stageRef = "capture_high",
                                !.stageEnteredAtRef = timestamp,
                                !.waitForSilenceBeforeHighRef = FALSE,
                                !.silenceStartRef = Null],
                     path, "low_captured", stableMidi)
        ELSE IF timestamp - r0.stageEnteredAtRef < HIGH_STAGE_MIN_DELAY_MS
        THEN Outcome(r0, path, "too_early", stableMidi)
        ELSE IF r0.lowMidiRef # Null
                /\ stableMidi < r0.lowMidiRef
        THEN Outcome([r0 EXCEPT !.testInstruction = "too_close"],
                     path, "too_close", stableMidi)
        ELSE LET r1 == finishRangeTest(
                           [r0 EXCEPT !.highMidiRef = stableMidi,
                                      !.rangeResult.highMidi = stableMidi])
             IN  Outcome(r1, path,
                         IF r1.stageRef = "done" THEN "finished"
                                                 ELSE "did_not_complete",
                         stableMidi)

\* Lines 339-364: a candidate pitch ends the stage, or is turned down.
completeStageWithMidi(r, stage, stableMidi, timestamp, path) ==
    LET r0 == [resetStability(r) EXCEPT !.fastPassRef = NoFastPass]
    IN  IF stage = "capture_low"
        THEN Outcome([r0 EXCEPT !.lowMidiRef = stableMidi,
                                !.rangeResult.lowMidi = stableMidi,
                                !.testInstruction = "low_captured",
                                !.stageRef = "capture_high",
                                !.stageEnteredAtRef = timestamp,
                                !.waitForSilenceBeforeHighRef = FALSE,
                                !.silenceStartRef = Null],
                     path, "low_captured", stableMidi)
        ELSE IF timestamp - r0.stageEnteredAtRef < HIGH_STAGE_MIN_DELAY_MS
        THEN Outcome(r0, path, "too_early", stableMidi)
        ELSE IF r0.lowMidiRef # Null
                /\ stableMidi < r0.lowMidiRef + HIGH_NOTE_MIN_SEMITONES
        THEN Outcome([r0 EXCEPT !.testInstruction = "too_close"],
                     path, "too_close", stableMidi)
        ELSE LET r1 == finishRangeTest(
                           [r0 EXCEPT !.highMidiRef = stableMidi,
                                      !.rangeResult.highMidi = stableMidi])
             IN  Outcome(r1, path,
                         IF r1.stageRef = "done" THEN "finished"
                                                 ELSE "did_not_complete",
                         stableMidi)

\* Lines 371-386: the inter-stage silence gate (it never returns early).
silenceGate(r, stage, timestamp, level) ==
    IF stage = "capture_high" /\ r.waitForSilenceBeforeHighRef
    THEN IF level * 10 < RMS_THRESHOLD * 6
         THEN LET silenceStart == IF r.silenceStartRef = Null
                                  THEN timestamp ELSE r.silenceStartRef
              IN  IF timestamp - silenceStart >= SILENCE_RESET_MS
                  THEN [r EXCEPT !.waitForSilenceBeforeHighRef = FALSE,
                                 !.silenceStartRef = Null,
                                 !.testInstruction = "sing_highest",
                                 !.sampleState = "idle"]
                  ELSE [r EXCEPT !.silenceStartRef = silenceStart]
         ELSE [r EXCEPT !.silenceStartRef = Null,
                        !.testInstruction = "pause_briefly"]
    ELSE r

\* Lines 387-389: the validity filter.
isValid(level, pitch) ==
    LET hasFreq == pitch.frequency_hz # Null /\ pitch.frequency_hz > 0
        confidenceOk == pitch.confidence > CONFIDENCE_THRESHOLD
                        \/ pitch.note_name # "null"
    IN  level > RMS_THRESHOLD /\ hasFreq /\ (confidenceOk \/ hasFreq)

\* A slip in line 414: the weights of the two pitches are exchanged.
smoothMidiOf_swapped(prevGood, midi) ==
    IF prevGood # Null /\ Abs(midi - prevGood) <= JUMP_LIMIT
    THEN (prevGood * 35 + midi * 65) \div 100
    ELSE midi

\* Line 414: the smoothed pitch, to the cent below.
smoothMidiOf(prevGood, midi) ==
    IF prevGood # Null /\ Abs(midi - prevGood) <= JUMP_LIMIT
    THEN (prevGood * 65 + midi * 35) \div 100
    ELSE midi

\* A slip in line 439: the candidate of a stability hold is the latest
\* smoothed pitch, not the median of the window.
stabilityWindow_lastSample(r, stage, timestamp, pitch) ==
    LET midi == frequencyToMidi(pitch.frequency_hz)
        prevGood == r.lastGoodPitchRef
        smoothMidi == smoothMidiOf(prevGood, midi)
        r1 == [r EXCEPT !.sampleState = "valid",
                        !.lastGoodPitchRef = smoothMidi]
        restarted == [r1 EXCEPT !.stableRef =
                                    [startAt |-> timestamp,
                                     lastValidAt |-> timestamp,
                                     samples |-> <<smoothMidi>>],
                                !.stabilityMs = 0]
    IN  IF Len(r1.stableRef.samples) = 0
        THEN Outcome(restarted, "first", "none", Null)
        ELSE IF Abs(smoothMidi - median(r1.stableRef.samples)) > STABLE_NOTE_DELTA
        THEN Outcome(restarted, "restart", "none", Null)
        ELSE LET pushed == Append(r1.stableRef.samples, smoothMidi)
                 kept == IF Len(pushed) > STABLE_CAPACITY
                         THEN Tail(pushed) ELSE pushed
                 elapsed == IF r1.stableRef.startAt # Null
                            THEN timestamp - r1.stableRef.startAt ELSE 0
                 r2 == [r1 EXCEPT !.stableRef.lastValidAt = timestamp,
                                  !.stableRef.samples = kept,
                                  !.stableHistoryRef = Append(@, smoothMidi),
                                  !.stabilityMs = elapsed]
             IN  IF elapsed >= STABLE_REQUIRED_MS
                 THEN completeStageWithMidi(r2, stage, smoothMidi,
                                            timestamp, "hold")
                 ELSE Outcome(r2, "append", "none", Null)

\* A slip in line 438: the hold is compared with the fast-pass dwell.
stabilityWindow_shortHold(r, stage, timestamp, pitch) ==
    LET midi == frequencyToMidi(pitch.frequency_hz)
        prevGood == r.lastGoodPitchRef
        smoothMidi == smoothMidiOf(prevGood, midi)
        r1 == [r EXCEPT !.sampleState = "valid",
                        !.lastGoodPitchRef = smoothMidi]
        restarted == [r1 EXCEPT !.stableRef =
                                    [startAt |-> timestamp,
                                     lastValidAt |-> timestamp,
                                     samples |-> <<smoothMidi>>],
                                !.stabilityMs = 0]
    IN  IF Len(r1.stableRef.samples) = 0
        THEN Outcome(restarted, "first", "none", Null)
        ELSE IF Abs(smoothMidi - median(r1.stableRef.samples)) > STABLE_NOTE_DELTA
        THEN Outcome(restarted, "restart", "none", Null)
        ELSE LET pushed == Append(r1.stableRef.samples, smoothMidi)
                 kept == IF Len(pushed) > STABLE_CAPACITY
                         THEN Tail(pushed) ELSE pushed
                 elapsed == IF r1.stableRef.startAt # Null
                            THEN timestamp - r1.stableRef.startAt ELSE 0
                 r2 == [r1 EXCEPT !.stableRef.lastValidAt = timestamp,
                                  !.stableRef.samples = kept,
                                  !.stableHistoryRef = Append(@, smoothMidi),
                                  !.stabilityMs = elapsed]
             IN  IF elapsed >= CONFIDENCE_PASS_MS
                 THEN completeStageWithMidi(r2, stage, median(kept),
                                            timestamp, "hold")
                 ELSE Outcome(r2, "append", "none", Null)

\* A slip in line 394: a gap of exactly 1200 ms still counts as a blip.
isBlip_inclusive(stable, timestamp) ==
    /\ stable.lastValidAt # Null
    /\ timestamp - stable.lastValidAt <= BLIP_MS

\* Lines 393-394: an invalid sample shortly after a valid one is passed over.
isBlip(stable, timestamp) ==
    /\ stable.lastValidAt # Null
    /\ timestamp - stable.lastValidAt < BLIP_MS

\* A slip in line 434: over capacity the window drops its newest sample.
stabilityWindow_evictsNewest(r, stage, timestamp, pitch) ==
    LET midi == frequencyToMidi(pitch.frequency_hz)
        prevGood == r.lastGoodPitchRef
        smoothMidi == smoothMidiOf(prevGood, midi)
        r1 == [r EXCEPT !.sampleState = "valid",
                        !.lastGoodPitchRef = smoothMidi]
        restarted == [r1 EXCEPT !.stableRef =
                                    [startAt |-> timestamp,
                                     lastValidAt |-> timestamp,
                                     samples |-> <<smoothMidi>>],
                                !.stabilityMs = 0]
    IN  IF Len(r1.stableRef.samples) = 0
        THEN Outcome(restarted, "first", "none", Null)
        ELSE IF Abs(smoothMidi - median(r1.stableRef.samples)) > STABLE_NOTE_DELTA
        THEN Outcome(restarted, "restart", "none", Null)
        ELSE LET pushed == Append(r1.stableRef.samples, smoothMidi)
                 kept == IF Len(pushed) > STABLE_CAPACITY
                         THEN SubSeq(pushed, 1, STABLE_CAPACITY) ELSE pushed
                 elapsed == IF r1.stableRef.startAt # Null
                            THEN timestamp - r1.stableRef.startAt ELSE 0
                 r2 == [r1 EXCEPT !.stableRef.lastValidAt = timestamp,
                                  !.stableRef.samples = kept,
                                  !.stableHistoryRef = Append(@, smoothMidi),
                                  !.stabilityMs = elapsed]
             IN  IF elapsed >= STABLE_REQUIRED_MS
                 THEN completeStageWithMidi(r2, stage, median(kept),
                                            timestamp, "hold")
                 ELSE Outcome(r2, "append", "none", Null)

\* Lines 411-443: smoothing and the stability window, for a valid sample.
stabilityWindow(r, stage, timestamp, pitch) ==
    LET midi == frequencyToMidi(pitch.frequency_hz)
        prevGood == r.lastGoodPitchRef
        smoothMidi == smoothMidiOf(prevGood, midi)
        r1 == [r EXCEPT !.sampleState = "valid",
                        !.lastGoodPitchRef = smoothMidi]
        restarted == [r1 EXCEPT !.stableRef =
                                    [startAt |-> timestamp,
                                     lastValidAt |-> timestamp,
                                     samples |-> <<smoothMidi>>],
                                !.stabilityMs = 0]
    IN  IF Len(r1.stableRef.samples) = 0
        THEN Outcome(restarted, "first", "none", Null)
        ELSE IF Abs(smoothMidi - median(r1.stableRef.samples)) > STABLE_NOTE_DELTA
        THEN Outcome(restarted, "restart", "none", Null)
        ELSE LET pushed == Append(r1.stableRef.samples, smoothMidi)
                 kept == IF Len(pushed) > STABLE_CAPACITY
                         THEN Tail(pushed) ELSE pushed
                 elapsed == IF r1.stableRef.startAt # Null
                            THEN timestamp - r1.stableRef.startAt ELSE 0
                 r2 == [r1 EXCEPT !.stableRef.lastValidAt = timestamp,
                                  !.stableRef.samples = kept,
                                  !.stableHistoryRef = Append(@, smoothMidi),
                                  !.stabilityMs = elapsed]
             IN  IF elapsed >= STABLE_REQUIRED_MS
                 THEN completeStageWithMidi(r2, stage, median(kept),
                                            timestamp, "hold")
                 ELSE Outcome(r2, "append", "none", Null)

\* A slip in the guard of line 368: Done is not among the stages that ignore
\* samples.
isCapturing_forgetsDone(stage) == stage # "idle"

\* Line 368: the stages in which a sample is handled.
isCapturing(stage) == stage = "capture_low" \/ stage = "capture_high"

\* A slip in lines 408-410: a sample below the fast-pass threshold leaves
\* the fast-pass timer running.
handlePitchSampleForRangeTest_keepsTimer(r, timestamp, level, pitch) ==
    LET stage == r.stageRef
    IN  IF ~isCapturing(stage)
        THEN Outcome(r, "ignored", "none", Null)
        ELSE
        LET g == silenceGate(r, stage, timestamp, level)
        IN  IF ~isValid(level, pitch) \/ pitch.frequency_hz = Null
            THEN LET r1 == [g EXCEPT !.fastPassRef = NoFastPass,
                                     !.sampleState = "invalid"]
                 IN  IF isBlip(r1.stableRef, timestamp)
                     THEN Outcome(r1, "blip", "none", Null)
                     ELSE Outcome(resetStability(r1), "invalid_reset",
                                  "none", Null)
            ELSE IF pitch.confidence >= CONFIDENCE_PASS_THRESHOLD
            THEN IF g.fastPassRef.stage # stage \/ g.fastPassRef.startAt = Null
                 THEN stabilityWindow(
                          [g EXCEPT !.fastPassRef =
                                        [stage |-> stage, startAt |-> timestamp]],
                          stage, timestamp, pitch)
                 ELSE IF timestamp - g.fastPassRef.startAt >= CONFIDENCE_PASS_MS
                 THEN completeStageWithMidi(g, stage,
                                            frequencyToMidi(pitch.frequency_hz),
                                            timestamp, "fast_pass")
                 ELSE stabilityWindow(g, stage, timestamp, pitch)
            ELSE stabilityWindow(g, stage, timestamp, pitch)

\* Lines 366-444.
handlePitchSampleForRangeTest(r, timestamp, level, pitch) ==
    LET stage == r.stageRef
    IN  IF ~isCapturing(stage)
        THEN Outcome(r, "ignored", "none", Null)
        ELSE
        LET g == silenceGate(r, stage, timestamp, level)
        IN  IF ~isValid(level, pitch) \/ pitch.frequency_hz = Null
            THEN LET r1 == [g EXCEPT !.fastPassRef = NoFastPass,
                                     !.sampleState = "invalid"]
                 IN  IF isBlip(r1.stableRef, timestamp)
                     THEN Outcome(r1, "blip", "none", Null)
                     ELSE Outcome(resetStability(r1), "invalid_reset",
                                  "none", Null)
            ELSE IF pitch.confidence >= CONFIDENCE_PASS_THRESHOLD
            THEN IF g.fastPassRef.stage # stage \/ g.fastPassRef.startAt = Null
                 THEN stabilityWindow(
                          [g EXCEPT !.fastPassRef =
                                        [stage |-> stage, startAt |-> timestamp]],
                          stage, timestamp, pitch)
                 ELSE IF timestamp - g.fastPassRef.startAt >= CONFIDENCE_PASS_MS
                 THEN completeStageWithMidi(g, stage,
                                            frequencyToMidi(pitch.frequency_hz),
                                            timestamp, "fast_pass")
                 ELSE stabilityWindow(g, stage, timestamp, pitch)
            ELSE IF g.fastPassRef.stage = stage
            THEN stabilityWindow([g EXCEPT !.fastPassRef = NoFastPass],
                                 stage, timestamp, pitch)
            ELSE stabilityWindow(g, stage, timestamp, pitch)

\* ------------------------------------------------- the original App
\* The capture logic of src/src/App.tsx, the App before its redesign,
\* translated from that file on the same range-test cells.  Its two
\* instructions that name the vowel are other texts than the redesign's.
\* src/src/App.tsx, lines 215-224.
App_resetStability(r) ==
    [r EXCEPT !.stableRef = EmptyStable,
              !.lastGoodPitchRef = Null,
              !.stabilityMs = 0,
              !.sampleState = "idle"]

\* src/src/App.tsx, lines 226-245.
App_resetRangeTest(r) ==
    App_resetStability(
        [r EXCEPT !.stageRef = "idle",
                  !.testInstruction = "click_start",
                  !.lowMidiRef = Null,
                  !.highMidiRef = Null,
                  !.stageEnteredAtRef = 0,
                  !.fastPassRef = NoFastPass,
                  !.waitForSilenceBeforeHighRef = FALSE,
                  !.silenceStartRef = Null,
                  !.stableHistoryRef = <<>>,
                  !.rangeResult = EmptyRange,
                  !.awaitingResultStep = FALSE])

\* src/src/App.tsx, lines 247-273.
App_finishRangeTest(r) ==
    LET lowMidi == r.lowMidiRef
        highMidi == r.highMidiRef
    IN  IF lowMidi = Null \/ highMidi = Null
        THEN [r EXCEPT !.testInstruction = "did_not_complete",
                       !.stageRef = "idle"]
        ELSE LET center == IF Len(r.stableHistoryRef) > 0
                           THEN median(r.stableHistoryRef)
                           ELSE (lowMidi + highMidi) \div 2
                 comfortLow == Max(lowMidi, center - COMFORT_SPAN)
                 comfortHigh == Min(highMidi, center + COMFORT_SPAN)
             IN  [r EXCEPT !.rangeResult =
                               [lowMidi |-> lowMidi, highMidi |-> highMidi,
                                comfortLowMidi |-> comfortLow,
                                comfortHighMidi |-> comfortHigh],
                           !.testInstruction = "high_captured",
                           !.stageRef = "done",
                           !.awaitingResultStep = TRUE]

\* src/src/App.tsx, lines 275-302.
App_completeStageWithMidi(r, stage, stableMidi, timestamp, path) ==
    LET r0 == [App_resetStability(r) EXCEPT !.fastPassRef = NoFastPass]
    IN  IF stage = "capture_low"
        THEN Outcome([r0 EXCEPT !.lowMidiRef = stableMidi,
                                !.rangeResult.lowMidi = stableMidi,
                                !.testInstruction = "low_captured",
                                !.stageRef = "capture_high",
                                !.stageEnteredAtRef = timestamp,
                                !.waitForSilenceBeforeHighRef = FALSE,
                                !.silenceStartRef = Null],
                     path, "low_captured", stableMidi)
        ELSE IF timestamp - r0.stageEnteredAtRef < HIGH_STAGE_MIN_DELAY_MS
        THEN Outcome(r0, path, "too_early", stableMidi)
        ELSE IF r0.lowMidiRef # Null
                /\ stableMidi < r0.lowMidiRef + HIGH_NOTE_MIN_SEMITONES
        THEN Outcome([r0 EXCEPT !.testInstruction = "too_close"],
                     path, "too_close", stableMidi)
        ELSE LET r1 == App_finishRangeTest(
                           [r0 EXCEPT !.highMidiRef = stableMidi,
                                      !.rangeResult.highMidi = stableMidi])
             IN  Outcome(r1, path,
                         IF r1.stageRef = "done" THEN "finished"
                                                 ELSE "did_not_complete",
                         stableMidi)

\* src/src/App.tsx, lines 310-326.
App_silenceGate(r, stage, timestamp, level) ==
    IF stage = "capture_high" /\ r.waitForSilenceBeforeHighRef
    THEN IF level * 10 < RMS_THRESHOLD * 6
         THEN LET silenceStart == IF r.silenceStartRef = Null
                                  THEN timestamp ELSE r.silenceStartRef
              IN  IF timestamp - silenceStart >= SILENCE_RESET_MS
                  THEN [r EXCEPT !.waitForSilenceBeforeHighRef = FALSE,
                                 !.silenceStartRef = Null,
                                 !.testInstruction = "sing_highest_ah",
                                 !.sampleState = "idle"]
                  ELSE [r EXCEPT !.silenceStartRef = silenceStart]
         ELSE [r EXCEPT !.silenceStartRef = Null,
                        !.testInstruction = "pause_briefly"]
    ELSE r

\* src/src/App.tsx, lines 327-329.
App_isValid(level, pitch) ==
    LET hasFreq == pitch.frequency_hz # Null /\ pitch.frequency_hz > 0
        confidenceOk == pitch.confidence > CONFIDENCE_THRESHOLD
                        \/ pitch.note_name # "null"
    IN  level > RMS_THRESHOLD /\ hasFreq /\ (confidenceOk \/ hasFreq)

\* A slip in line 358 of src/src/App.tsx: the weights are exchanged.
App_smoothMidiOf_swapped(prevGood, midi) ==
    IF prevGood # Null /\ Abs(midi - prevGood) <= JUMP_LIMIT
    THEN (prevGood * 35 + midi * 65) \div 100
    ELSE midi

\* src/src/App.tsx, lines 357-358.
App_smoothMidiOf(prevGood, midi) ==
    IF prevGood # Null /\ Abs(midi - prevGood) <= JUMP_LIMIT
    THEN (prevGood * 65 + midi * 35) \div 100
    ELSE midi

\* src/src/App.tsx, lines 334-335.
App_isBlip(stable, timestamp) ==
    /\ stable.lastValidAt # Null
    /\ timestamp - stable.lastValidAt < BLIP_MS

\* src/src/App.tsx, lines 354-392.
App_stabilityWindow(r, stage, timestamp, pitch) ==
    LET midi == frequencyToMidi(pitch.frequency_hz)
        prevGood == r.lastGoodPitchRef
        smoothMidi == App_smoothMidiOf(prevGood, midi)
        r1 == [r EXCEPT !.sampleState = "valid",
                        !.lastGoodPitchRef = smoothMidi]
        restarted == [r1 EXCEPT !.stableRef =
                                    [startAt |-> timestamp,
                                     lastValidAt |-> timestamp,
                                     samples |-> <<smoothMidi>>],
                                !.stabilityMs = 0]
    IN  IF Len(r1.stableRef.samples) = 0
        THEN Outcome(restarted, "first", "none", Null)
        ELSE IF Abs(smoothMidi - median(r1.stableRef.samples)) > STABLE_NOTE_DELTA
        THEN Outcome(restarted, "restart", "none", Null)
        ELSE LET pushed == Append(r1.stableRef.samples, smoothMidi)
                 kept == IF Len(pushed) > STABLE_CAPACITY
                         THEN Tail(pushed) ELSE pushed
                 elapsed == IF r1.stableRef.startAt # Null
                            THEN timestamp - r1.stableRef.startAt ELSE 0
                 r2 == [r1 EXCEPT !.stableRef.lastValidAt = timestamp,
                                  !.stableRef.samples = kept,
                                  !.stableHistoryRef = Append(@, smoothMidi),
                                  !.stabilityMs = elapsed]
             IN  IF elapsed >= STABLE_REQUIRED_MS
                 THEN App_completeStageWithMidi(r2, stage, median(kept),
                                            timestamp, "hold")
                 ELSE Outcome(r2, "append", "none", Null)

\* src/src/App.tsx, line 306.
App_isCapturing(stage) == stage = "capture_low" \/ stage = "capture_high"

\* src/src/App.tsx, lines 304-393.
App_handlePitchSampleForRangeTest(r, timestamp, level, pitch) ==
    LET stage == r.stageRef
    IN  IF ~App_isCapturing(stage)
        THEN Outcome(r, "ignored", "none", Null)
        ELSE
        LET g == App_silenceGate(r, stage, timestamp, level)
        IN  IF ~App_isValid(level, pitch) \/ pitch.frequency_hz = Null
            THEN LET r1 == [g EXCEPT !.fastPassRef = NoFastPass,
                                     !.sampleState = "invalid"]
                 IN  IF App_isBlip(r1.stableRef, timestamp)
                     THEN Outcome(r1, "blip", "none", Null)
                     ELSE Outcome(App_resetStability(r1), "invalid_reset",
                                  "none", Null)
            ELSE IF pitch.confidence >= CONFIDENCE_PASS_THRESHOLD
            THEN IF g.fastPassRef.stage # stage \/ g.fastPassRef.startAt = Null
                 THEN App_stabilityWindow(
                          [g EXCEPT !.fastPassRef =
                                        [stage |-> stage, startAt |-> timestamp]],
                          stage, timestamp, pitch)
                 ELSE IF timestamp - g.fastPassRef.startAt >= CONFIDENCE_PASS_MS
                 THEN App_completeStageWithMidi(g, stage,
                                            frequencyToMidi(pitch.frequency_hz),
                                            timestamp, "fast_pass")
                 ELSE App_stabilityWindow(g, stage, timestamp, pitch)
            ELSE IF g.fastPassRef.stage = stage
            THEN App_stabilityWindow([g EXCEPT !.fastPassRef = NoFastPass],
                                 stage, timestamp, pitch)
            ELSE App_stabilityWindow(g, stage, timestamp, pitch)

\* ------------------------------------------------------ poll state (poll)
NoPitch ==
    [frequency_hz |-> Null, confidence |-> 0, note_name |-> "null",
     cents_offset |-> Null]

InitPoll ==
    [pollTimerRef |-> Null,
     pollErrorCountRef |-> 0,
     pollInFlightRef |-> FALSE,
     inputLevelRef |-> 0,
     rawInputLevelRef |-> 0,
     pitchData |-> NoPitch]

stopLevelPolling(p) ==
    [p EXCEPT !.pollTimerRef = Null,
              !.inputLevelRef = 0,
              !.rawInputLevelRef = 0,
              !.pitchData = NoPitch,
              !.pollErrorCountRef = 0,
              !.pollInFlightRef = FALSE]

\* Lines 460-462: stop, then a fresh interval timer.
startLevelPolling(p) ==
    [stopLevelPolling(p) EXCEPT !.pollTimerRef = 1]

\* Line 469 and line 470.
safeLevelOf(level) == Max(0, Min(FULL_SCALE, level))

boostedLevelOf(safeLevel) == Max(0, Min(FULL_SCALE, safeLevel * LEVEL_GAIN))

\* Lines 480-485.
safePitchOf(pitch) ==
    [frequency_hz |-> pitch.frequency_hz,
     confidence |-> Max(0, Min(100, pitch.confidence)),
     note_name |-> pitch.note_name,
     cents_offset |-> pitch.cents_offset]

\* A slip in lines 490-491: a tick with a success leaves the count as it is.
countErrors_keepsCount(p, hasAnySuccess) ==
    LET counted == [p EXCEPT !.pollErrorCountRef =
                                 IF hasAnySuccess THEN @ ELSE @ + 1]
    IN  IF counted.pollErrorCountRef >= MAX_POLL_ERRORS
        THEN stopLevelPolling(counted)
        ELSE counted

\* Lines 490-497: the consecutive-error count after a tick, and the
\* self-stop.
countErrors(p, hasAnySuccess) ==
    LET counted == [p EXCEPT !.pollErrorCountRef =
                                 IF hasAnySuccess THEN 0 ELSE @ + 1]
    IN  IF counted.pollErrorCountRef >= MAX_POLL_ERRORS
        THEN stopLevelPolling(counted)
        ELSE counted

\* --------------------------------------------------------------- inputs
\* What get_input_level returns: a level above the RMS floor (a sample is
\* taken with level 0 when the fetch fails before any has succeeded).
LevelInputs == {20}

Pitch(f, c, n) ==
    [frequency_hz |-> f, confidence |-> c, note_name |-> n,
     cents_offset |-> Null]

\* What get_pitch_data returns: no estimate; estimates of high confidence at
\* two pitches and of middling confidence at two.
PitchInputs ==
    {NoPitch,
     Pitch(220, 30, "A3"),
     Pitch(220, 60, "A3"),
     Pitch(262, 60, "C4"),
     Pitch(440, 30, "A4")}

RacePitchInputs == {NoPitch, Pitch(220, 60, "A3")}

ClockSteps == {0, CONFIDENCE_PASS_MS, STABLE_REQUIRED_MS}

FlowPcs == {"start_stopping", "start_starting", "stop_stopping", "reset_stopping"}

\* ------------------------------------------- pages and recommendations
\* No loadRecommendations call is awaiting the backend.
NoLoad == [pc |-> "none"]

\* The cells of App behind the pages: the page shown, the recommendation
\* list, its view switch and its filter chip, and the loadRecommendations
\* call in flight (load: the call the backend answers next; other: a second
\* call awaiting the backend, when two are in flight).
\* shown and last are observation only: how the list now held was obtained,
\* and what the load that set it asked and was answered.
InitUi ==
    [activePage |-> "Home",
     recommendations |-> <<>>,
     showAllRecommendations |-> FALSE,
     load |-> NoLoad,
     shown |-> "none",
     last |-> NoLoad,
     recoFilter |-> "all",
     other |-> NoLoad]

\* Titles and artists are sequences of pieces of text, and joining them is
\* concatenation.  Line 612 and line 614: `${title}::${artist}`.
songKey(song) == song.title \o <<"::">> \o song.artist

\* Math.round of a pitch, to whole semitones.
Round(cents) == (cents + 50) \div 100

\* Line 592.
isRangeComplete(range) ==
    /\ range.lowMidi # Null
    /\ range.highMidi # Null
    /\ range.comfortLowMidi # Null
    /\ range.comfortHighMidi # Null

\* Lines 593-598: the arguments of the first recommend_songs call.
primaryQuery(range) ==
    [userLowMidi |-> Round(range.lowMidi),
     userHighMidi |-> Round(range.highMidi),
     comfortLowMidi |-> Round(range.comfortLowMidi),
     comfortHighMidi |-> Round(range.comfortHighMidi)]

\* Lines 600-605: the arguments of the second recommend_songs call.
fallbackQuery(range) ==
    [userLowMidi |-> Round(range.lowMidi) - FALLBACK_RANGE_WIDEN,
     userHighMidi |-> Round(range.highMidi) + FALLBACK_RANGE_WIDEN,
     comfortLowMidi |-> Round(range.comfortLowMidi) - FALLBACK_COMFORT_WIDEN,
     comfortHighMidi |-> Round(range.comfortHighMidi) + FALLBACK_COMFORT_WIDEN]

\* A slip in line 599: the second query is sent whatever the first returned.
needsFallback_always(recs) == TRUE

\* Line 599.
needsFallback(recs) == Len(recs) = 0

RECURSIVE Keys(_)
Keys(songs) ==
    IF songs = <<>> THEN {} ELSE {songKey(Head(songs))} \cup Keys(Tail(songs))

\* A slip in line 615: every imported song is pushed, seen or not.
RECURSIVE pushUnseen_all(_, _, _)
pushUnseen_all(merged, seen, importedOnly) ==
    IF importedOnly = <<>> THEN merged
    ELSE LET song == Head(importedOnly)
             key == songKey(song)
         IN  pushUnseen_all(Append(merged, song), seen \cup {key},
                            Tail(importedOnly))

\* Lines 613-619: the loop over importedOnly.
RECURSIVE pushUnseen(_, _, _)
pushUnseen(merged, seen, importedOnly) ==
    IF importedOnly = <<>> THEN merged
    ELSE LET song == Head(importedOnly)
             key == songKey(song)
         IN  IF key \notin seen
             THEN pushUnseen(Append(merged, song), seen \cup {key},
                             Tail(importedOnly))
             ELSE pushUnseen(merged, seen, Tail(importedOnly))

\* Lines 611-619.
mergeRecommendations(recs, importedOnly) ==
    pushUnseen(recs, Keys(recs), importedOnly)

\* Lines 1115-1121: the filter over the whole list, after the top.
RECURSIVE importedUnseen(_, _)
importedUnseen(songs, seen) ==
    IF songs = <<>> THEN <<>>
    ELSE LET song == Head(songs)
             key == songKey(song)
         IN  IF ~song.is_imported \/ key \in seen
             THEN importedUnseen(Tail(songs), seen)
             ELSE <<song>> \o importedUnseen(Tail(songs), seen \cup {key})

\* Lines 1110-1123.
visibleRecommendations(recommendations, showAllRecommendations) ==
    IF showAllRecommendations THEN recommendations
    ELSE LET top == SubSeq(recommendations, 1,
                           Min(TOP_N, Len(recommendations)))
         IN  top \o importedUnseen(recommendations, Keys(top))

\* Line 1131: the filter chips.
RecoFilters == {"all", "great", "singable", "challenging"}

\* A slip in line 122: the first threshold is exclusive.
fitBucket_exclusive(score) ==
    IF score > GREAT_FIT_SCORE THEN [label |-> "Great Fit", className |-> "great"]
    ELSE IF score >= SINGABLE_SCORE
    THEN [label |-> "Singable", className |-> "singable"]
    ELSE IF score >= CHALLENGING_SCORE
    THEN [label |-> "Challenging", className |-> "challenging"]
    ELSE [label |-> "Not Recommended", className |-> "low"]

\* Lines 121-132.
fitBucket(score) ==
    IF score >= GREAT_FIT_SCORE THEN [label |-> "Great Fit", className |-> "great"]
    ELSE IF score >= SINGABLE_SCORE
    THEN [label |-> "Singable", className |-> "singable"]
    ELSE IF score >= CHALLENGING_SCORE
    THEN [label |-> "Challenging", className |-> "challenging"]
    ELSE [label |-> "Not Recommended", className |-> "low"]

\* Lines 1125-1127: the cards rendered.
RECURSIVE filtered(_, _)
filtered(visible, recoFilter) ==
    IF recoFilter = "all" \/ visible = <<>> THEN visible
    ELSE LET rest == filtered(Tail(visible), recoFilter)
         IN  IF fitBucket(Head(visible).fit_score).className = recoFilter
             THEN <<Head(visible)>> \o rest
             ELSE rest

\* ----------------------------------------------- the recommendation engine
\* The engine behind recommend_songs and recommend_imported_songs, as the
\* specification describes it: section 4.2 and section 6.
\*
\* The catalog: the static list followed by the imported list.  An imported
\* record may carry the title and artist of a record of the static list (7)
\* or of another imported record (8).
Catalog ==
    << [title |-> <<"T1">>, artist |-> <<"A">>, is_imported |-> FALSE],
       [title |-> <<"T2">>, artist |-> <<"A">>, is_imported |-> FALSE],
       [title |-> <<"T3">>, artist |-> <<"A">>, is_imported |-> FALSE],
       [title |-> <<"T4">>, artist |-> <<"B">>, is_imported |-> FALSE],
       [title |-> <<"T5">>, artist |-> <<"B">>, is_imported |-> FALSE],
       [title |-> <<"T6">>, artist |-> <<"U">>, is_imported |-> TRUE],
       [title |-> <<"T1">>, artist |-> <<"A">>, is_imported |-> TRUE],
       [title |-> <<"T6">>, artist |-> <<"U">>, is_imported |-> TRUE] >>

StaticIds == {i \in 1..Len(Catalog) : ~Catalog[i].is_imported}

ImportedIds == {i \in 1..Len(Catalog) : Catalog[i].is_imported}

\* What the engine's answer depends on, beyond the query: which records have
\* been imported so far, the penalties and the shift of every record for the
\* singer's range, and the static records matching the primary and the
\* widened query (the widened query is looked at only when the primary one
\* returns nothing, that is, when nothing is imported and nothing matches).
Scorings ==
    { [penalties |-> <<0, 10, 25, 40, 41, 130, 95, 50>>,
       shifts |-> <<0, 0, 0, 0, 0, 0, 0, 0>>],
      [penalties |-> <<20, 20, 20, 20, 20, 5, 5, 5>>,
       shifts |-> <<0, 0, 0, 0, 0, 0, 0, 0>>],
      [penalties |-> <<30, 30, 30, 30, 30, 30, 30, 20>>,
       shifts |-> <<2, -1, 0, 3, -2, 1, 0, -4>>] }

Scenarios ==
    { [imports |-> i, primary |-> p, fallback |-> f,
       penalties |-> sc.penalties, shifts |-> sc.shifts] :
          <<i, p, f, sc>> \in
              { t \in {{}, {6}, ImportedIds} \X {{}, StaticIds}
                        \X {{}, StaticIds} \X Scorings :
                    t[3] # {} => t[1] = {} /\ t[2] = {} } }

\* The backends of the overlapping calls: one imported song, and the static
\* songs matching the first query, the second or neither.
OverlapScenarios ==
    {sc \in Scenarios : sc.imports = {6} \/ sc.fallback # {}}

\* A slip in the total: the score is not clamped.
total_score_unclamped(penalties) == MAX_SCORE - penalties

\* total_score = clamp(100 - penalties, 0, 100); fit_score is its rounding.
total_score(penalties) == Max(0, Min(MAX_SCORE, MAX_SCORE - penalties))

build_recommendation(id, scenario) ==
    Catalog[id] @@
    [id |-> id,
     shift |-> scenario.shifts[id],
     fit_score |-> total_score(scenario.penalties[id])]

\* Descending fit_score, then smaller |shift|, then catalog order.
RanksBefore(a, b) ==
    \/ a.fit_score > b.fit_score
    \/ /\ a.fit_score = b.fit_score
       /\ \/ Abs(a.shift) < Abs(b.shift)
          \/ Abs(a.shift) = Abs(b.shift) /\ a.id < b.id

RECURSIVE sort_recommendations(_)
sort_recommendations(songs) ==
    IF songs = {} THEN <<>>
    ELSE LET first == CHOOSE a \in songs :
                          \A b \in songs \ {a} : RanksBefore(a, b)
         IN  <<first>> \o sort_recommendations(songs \ {first})

\* Every imported record, and the static records that match the query.
recommend_songs(scenario, matching) ==
    sort_recommendations(
        {build_recommendation(id, scenario) : id \in scenario.imports \cup matching})

recommend_imported_songs(scenario) ==
    sort_recommendations(
        {build_recommendation(id, scenario) : id \in scenario.imports})

\* ---------------------------------------------------------------- state
VARIABLES
    rt,       \* the range-test cells
    poll,     \* the poll-loop cells
    ticks,    \* the poll ticks awaiting the backend, oldest first
    flows,    \* how many button handlers await the backend, per position
    status,   \* the status line
    now,      \* the last reading of Date.now()
    hist,     \* what the last step was (observation only)
    ui        \* the page shown and the recommendation cells

vars == <<rt, poll, ticks, flows, status, now, hist, ui>>

Quiet == [op |-> "other", path |-> "none", result |-> "none", cand |-> Null,
          selfStop |-> FALSE]

Note(op, afterReset) == [Quiet EXCEPT !.op = op] @@ [afterReset |-> afterReset]

Init ==
    /\ rt = InitRangeTest
    /\ poll = InitPoll
    /\ ticks = <<>>
    /\ flows = [pc \in FlowPcs |-> 0]
    /\ status = "Idle"
    /\ now = 0
    /\ hist = Note("other", FALSE)
    /\ ui = InitUi

Pending ==
    flows["start_stopping"] + flows["start_starting"]
        + flows["stop_stopping"] + flows["reset_stopping"]

RemoveAt(q, i) == SubSeq(q, 1, i - 1) \o SubSeq(q, i + 1, Len(q))

\* --------------------------------------------------------------- actions
\* Date.now(): the clock is read only where the code calls it, and each
\* reading is the last one plus the time d gone by since.
Clock(read, d) == IF read THEN now + d ELSE now

\* Lines 462-468: the interval callback up to its first await.
TimerFire ==
    /\ poll.pollTimerRef # Null
    /\ IF poll.pollInFlightRef
       THEN UNCHANGED <<poll, ticks>>
       ELSE /\ Len(ticks) < MaxTicks
            /\ poll' = [poll EXCEPT !.pollInFlightRef = TRUE]
            /\ ticks' = Append(ticks, [pc |-> "level", hasAnySuccess |-> FALSE,
                                       sampledLevel |-> poll.rawInputLevelRef])
    /\ hist' = Note("other", hist.afterReset)
    /\ UNCHANGED <<rt, flows, status, now>>

\* Lines 468-479: get_input_level settles; get_pitch_data is invoked.
LevelDone(i, ok, level) ==
    /\ i \in 1..Len(ticks)
    /\ ticks[i].pc = "level"
    /\ IF ok
       THEN LET safeLevel == safeLevelOf(level)
            IN  /\ poll' = [poll EXCEPT !.rawInputLevelRef = safeLevel,
                                        !.inputLevelRef = boostedLevelOf(safeLevel)]
                /\ ticks' = [ticks EXCEPT ![i] = [pc |-> "pitch",
                                                  hasAnySuccess |-> TRUE,
                                                  sampledLevel |-> safeLevel]]
       ELSE /\ ticks' = [ticks EXCEPT ![i].pc = "pitch"]
            /\ UNCHANGED poll
    /\ hist' = Note("other", hist.afterReset)
    /\ UNCHANGED <<rt, flows, status, now>>

\* A slip in lines 478-489: the sample handler is called after the try block,
\* with the pitch last displayed, also when get_pitch_data failed.
PitchDone_handlesStale(i, ok, pitch, d) ==
    /\ i \in 1..Len(ticks)
    /\ ticks[i].pc = "pitch"
    /\ now' = Clock(ok, d)
    /\ LET t == ticks[i]
           safePitch == safePitchOf(pitch)
           out == IF ok
                  THEN handlePitchSampleForRangeTest(rt, now', t.sampledLevel,
                                                     safePitch)
                  ELSE handlePitchSampleForRangeTest(rt, now', t.sampledLevel,
                                                     poll.pitchData)
           p1 == IF ok THEN [poll EXCEPT !.pitchData = safePitch] ELSE poll
           p2 == countErrors(p1, t.hasAnySuccess \/ ok)
       IN  /\ Len(out.rt.stableHistoryRef) <= MaxHistory
           /\ rt' = out.rt
           /\ poll' = [p2 EXCEPT !.pollInFlightRef = FALSE]
           /\ hist' = [op |-> IF ok THEN "pitch_ok" ELSE "pitch_fail",
                       path |-> out.path, result |-> out.result,
                       cand |-> out.cand,
                       selfStop |-> p1.pollErrorCountRef + 1 >= MAX_POLL_ERRORS
                                    /\ ~(t.hasAnySuccess \/ ok),
                       afterReset |-> hist.afterReset]
    /\ ticks' = RemoveAt(ticks, i)
    /\ UNCHANGED <<flows, status>>

\* Lines 479-498: get_pitch_data settles; the sample is handled, the errors
\* are counted and the tick ends.
PitchDone(i, ok, pitch, d) ==
    /\ i \in 1..Len(ticks)
    /\ ticks[i].pc = "pitch"
    /\ now' = Clock(ok, d)
    /\ LET t == ticks[i]
           safePitch == safePitchOf(pitch)
           out == IF ok
                  THEN handlePitchSampleForRangeTest(rt, now', t.sampledLevel,
                                                     safePitch)
                  ELSE Outcome(rt, "none", "none", Null)
           p1 == IF ok THEN [poll EXCEPT !.pitchData = safePitch] ELSE poll
           p2 == countErrors(p1, t.hasAnySuccess \/ ok)
       IN  /\ Len(out.rt.stableHistoryRef) <= MaxHistory
           /\ rt' = out.rt
           /\ poll' = [p2 EXCEPT !.pollInFlightRef = FALSE]
           /\ hist' = [op |-> IF ok THEN "pitch_ok" ELSE "pitch_fail",
                       path |-> out.path, result |-> out.result,
                       cand |-> out.cand,
                       selfStop |-> p1.pollErrorCountRef + 1 >= MAX_POLL_ERRORS
                                    /\ ~(t.hasAnySuccess \/ ok),
                       afterReset |-> hist.afterReset]
    /\ ticks' = RemoveAt(ticks, i)
    /\ UNCHANGED <<flows, status>>

\* Line 560-561: Start Test is clicked; stop_stream is invoked.
ClickStart ==
    /\ flows' = [flows EXCEPT !["start_stopping"] = @ + 1]
    /\ hist' = Note("other", hist.afterReset)
    /\ UNCHANGED <<rt, poll, ticks, status, now>>

\* Lines 561-563 and 531-533: stop_stream settles (its outcome is ignored);
\* polling is stopped and start_stream is invoked.
StartStopSettled ==
    /\ flows["start_stopping"] > 0
    /\ flows' = [flows EXCEPT !["start_stopping"] = @ - 1,
                              !["start_starting"] = @ + 1]
    /\ poll' = stopLevelPolling(poll)
    /\ hist' = Note("other", hist.afterReset)
    /\ UNCHANGED <<rt, ticks, status, now>>

\* A slip in startRangeTest: resetRangeTest is called before startStream has
\* answered.
StartStreamSettled_resetsFirst(ok, d) ==
    /\ flows["start_starting"] > 0
    /\ flows' = [flows EXCEPT !["start_starting"] = @ - 1]
    /\ now' = Clock(ok, d)
    /\ IF ok
       THEN /\ poll' = startLevelPolling(poll)
            /\ rt' = [resetRangeTest(rt) EXCEPT
                          !.stageRef = "capture_low",
                          !.stageEnteredAtRef = now',
                          !.awaitingResultStep = FALSE,
                          !.testInstruction = "sing_lowest"]
            /\ status' = "range_started"
            /\ hist' = Note("start", FALSE)
       ELSE /\ poll' = stopLevelPolling(poll)
            /\ status' = "start_failed"
            /\ hist' = Note("other", hist.afterReset)
            /\ rt' = resetRangeTest(rt)
    /\ UNCHANGED ticks

\* Lines 533-542 and 563-572: start_stream settles.
StartStreamSettled(ok, d) ==
    /\ flows["start_starting"] > 0
    /\ flows' = [flows EXCEPT !["start_starting"] = @ - 1]
    /\ now' = Clock(ok, d)
    /\ IF ok
       THEN /\ poll' = startLevelPolling(poll)
            /\ rt' = [resetRangeTest(rt) EXCEPT
                          !.stageRef = "capture_low",
                          !.stageEnteredAtRef = now',
                          !.awaitingResultStep = FALSE,
                          !.testInstruction = "sing_lowest"]
            /\ status' = "range_started"
            /\ hist' = Note("start", FALSE)
       ELSE /\ poll' = stopLevelPolling(poll)
            /\ status' = "start_failed"
            /\ hist' = Note("other", hist.afterReset)
            /\ UNCHANGED rt
    /\ UNCHANGED ticks

\* Line 544-546: Stop is clicked; stop_stream is invoked.
ClickStop ==
    /\ flows' = [flows EXCEPT !["stop_stopping"] = @ + 1]
    /\ hist' = Note("other", hist.afterReset)
    /\ UNCHANGED <<rt, poll, ticks, status, now>>

\* Lines 546-552: stop_stream settles in stopStream.
StopSettled(ok) ==
    /\ flows["stop_stopping"] > 0
    /\ flows' = [flows EXCEPT !["stop_stopping"] = @ - 1]
    /\ status' = IF ok THEN "audio_stopped" ELSE "stop_failed"
    /\ poll' = stopLevelPolling(poll)
    /\ hist' = Note("stop", hist.afterReset)
    /\ UNCHANGED <<rt, ticks, now>>

\* Line 555-556: Reset is clicked; stopStream invokes stop_stream.
ClickReset ==
    /\ flows' = [flows EXCEPT !["reset_stopping"] = @ + 1]
    /\ hist' = Note("other", hist.afterReset)
    /\ UNCHANGED <<rt, poll, ticks, status, now>>

\* Lines 546-552 and 557: stopStream settles in resetTestFlow, then
\* resetRangeTest.
ResetSettled(ok) ==
    /\ flows["reset_stopping"] > 0
    /\ flows' = [flows EXCEPT !["reset_stopping"] = @ - 1]
    /\ status' = IF ok THEN "audio_stopped" ELSE "stop_failed"
    /\ poll' = stopLevelPolling(poll)
    /\ rt' = resetRangeTest(rt)
    /\ hist' = Note("reset", TRUE)
    /\ UNCHANGED <<ticks, now>>

\* One step of the program in an environment: the sample source delivers
\* pitches and levels from the given sets, the clock moves by the given
\* steps between readings, totalFail says whether both fetches of one tick
\* may fail, and mode says how requests may overlap:
\*   "sequential"   a button is clicked, and the timer fires, only while no
\*                  request is awaiting the backend;
\*   "one_handler"  ticks overlap button handlers, one handler at a time;
\*   "bounded"      ticks overlap up to MaxFlows handlers.
CanClick(mode) ==
    CASE mode = "sequential" -> ticks = <<>> /\ Pending = 0
      [] mode = "one_handler" -> Pending = 0
      [] OTHER -> Pending < MaxFlows

Step(pitches, levels, steps, mode, totalFail) ==
    /\ \/ (mode = "sequential" => Pending = 0) /\ TimerFire
       \/ \E i \in 1..MaxTicks, ok \in BOOLEAN, level \in levels :
              /\ ok \/ level = CHOOSE l \in levels : TRUE
              /\ LevelDone(i, ok, level)
       \/ \E i \in 1..MaxTicks, ok \in BOOLEAN, pitch \in pitches, d \in steps :
              /\ i \in 1..Len(ticks)
              /\ totalFail \/ ok \/ ticks[i].hasAnySuccess
              /\ ok \/ (pitch = NoPitch /\ d = 0)
              /\ now + d <= MaxTime
              /\ PitchDone(i, ok, pitch, d)
       \/ CanClick(mode) /\ ClickStart
       \/ StartStopSettled
       \/ \E ok \in BOOLEAN, d \in steps :
              /\ ok \/ d = 0
              /\ now + d <= MaxTime
              /\ StartStreamSettled(ok, d)
       \/ CanClick(mode) /\ ClickStop
       \/ \E ok \in BOOLEAN : StopSettled(ok)
       \/ CanClick(mode) /\ ClickReset
       \/ \E ok \in BOOLEAN : ResetSettled(ok)
    /\ UNCHANGED ui

\* The capture run: every pitch input, one request at a time.
Next == Step(PitchInputs, LevelInputs, ClockSteps, "sequential", FALSE)

Spec == Init /\ [][Next]_vars

\* The races: ticks that overlap each other and a button handler.
RaceNext ==
    Step(RacePitchInputs, LevelInputs, {0, STABLE_REQUIRED_MS}, "one_handler",
         FALSE)

RaceSpec == Init /\ [][RaceNext]_vars

\* The failing sample source: overlapping requests and ticks that fail
\* altogether.
PollNext == Step(RacePitchInputs, LevelInputs, {0}, "bounded", TRUE)

PollSpec == Init /\ [][PollNext]_vars

\* The failing sample source under the scheduling the runtime guarantees:
\* the interval timer keeps firing and the backend answers every request.
FairPollSpec ==
    /\ PollSpec
    /\ WF_vars(TimerFire /\ UNCHANGED ui)
    /\ WF_vars(\E i \in 1..MaxTicks, ok \in BOOLEAN, level \in LevelInputs :
                   LevelDone(i, ok, level) /\ UNCHANGED ui)
    /\ WF_vars(\E i \in 1..MaxTicks, ok \in BOOLEAN, pitch \in RacePitchInputs :
                   PitchDone(i, ok, pitch, 0) /\ UNCHANGED ui)
    /\ WF_vars(StartStopSettled /\ UNCHANGED ui)
    /\ WF_vars(\E ok \in BOOLEAN : StartStreamSettled(ok, 0) /\ UNCHANGED ui)
    /\ WF_vars(\E ok \in BOOLEAN : StopSettled(ok) /\ UNCHANGED ui)
    /\ WF_vars(\E ok \in BOOLEAN : ResetSettled(ok) /\ UNCHANGED ui)

\* The unreliable sample source during a capture: one request at a time, and
\* either fetch of a tick, or both, may fail.
TickFailNext ==
    Step(RacePitchInputs, LevelInputs, {0, STABLE_REQUIRED_MS}, "sequential",
         TRUE)

TickFailSpec == Init /\ [][TickFailNext]_vars

\* ------------------------------------------- the run at the poll cadence
\* A capture fed by ticks that do not overlap anything: the interval fires
\* every POLL_INTERVAL_MS, both fetches resolve, and the sample is handled
\* with the clock reading of that moment.  hist also records the run of
\* samples that led to the present one (observation only):
\*   runStart    when the run began (its first sample);
\*   runRaw      the unsmoothed pitches of the run, all of them valid and all
\*               within one band of 2 semitones (a fixed pitch +/- 1);
\*   runFresh    the run began on an empty stability window without a
\*               smoothing reference;
\*   runLowConf  every sample of the run had confidence below the fast-pass
\*               threshold;
\*   validSince  the first valid sample since the stage was entered or a
\*               candidate was last produced;
\*   passSince   the first sample of the unbroken series of valid samples at
\*               or above the fast-pass threshold that ends with this one;
\*   changes     how often the source's reading changed.
\* A run ends with the stage, with an invalid sample and with a sample that
\* produced a finalization candidate.
NoRun ==
    [runStart |-> Null, runRaw |-> <<>>, runFresh |-> FALSE,
     runLowConf |-> FALSE, validSince |-> Null, passSince |-> Null,
     changes |-> 0]

HoldNote(op, run) == Note(op, FALSE) @@ run

HoldPitchInputs ==
    {NoPitch,
     Pitch(220, 30, "A3"),
     Pitch(226, 30, "A3"),
     Pitch(262, 30, "C4"),
     Pitch(220, 60, "A3")}

RECURSIVE SeqMax(_)
SeqMax(q) == IF Len(q) = 1 THEN q[1] ELSE Max(q[1], SeqMax(Tail(q)))

RECURSIVE SeqMin(_)
SeqMin(q) == IF Len(q) = 1 THEN q[1] ELSE Min(q[1], SeqMin(Tail(q)))

\* The run after a sample handled at time t in state r (before the sample).
RunAfter(r, run, lastResult, t, level, pitch) ==
    IF ~isCapturing(r.stageRef) \/ ~isValid(level, pitch)
    THEN [NoRun EXCEPT !.changes = run.changes,
                       !.validSince = IF isCapturing(r.stageRef)
                                         /\ lastResult = "none"
                                      THEN run.validSince ELSE Null]
    ELSE LET midi == frequencyToMidi(pitch.frequency_hz)
             lowConf == pitch.confidence < CONFIDENCE_PASS_THRESHOLD
             raw == Append(run.runRaw, midi)
             goesOn == /\ run.runRaw # <<>>
                       /\ lastResult = "none"
                       /\ SeqMax(raw) - SeqMin(raw) <= STABLE_NOTE_DELTA
             since == IF lastResult = "none" /\ run.validSince # Null
                      THEN run.validSince ELSE t
             pass == IF lowConf THEN Null
                     ELSE IF lastResult = "none" /\ run.passSince # Null
                     THEN run.passSince ELSE t
         IN  IF goesOn
             THEN [run EXCEPT !.runRaw = raw,
                              !.runLowConf = @ /\ lowConf,
                              !.validSince = since,
                              !.passSince = pass]
             ELSE [run EXCEPT !.runStart = t,
                              !.runRaw = <<midi>>,
                              !.runFresh = r.stableRef.samples = <<>>
                                           /\ r.lastGoodPitchRef = Null,
                              !.runLowConf = lowConf,
                              !.validSince = since,
                              !.passSince = pass]

HoldInit ==
    /\ rt = InitRangeTest
    /\ poll = InitPoll
    /\ ticks = <<>>
    /\ flows = [pc \in FlowPcs |-> 0]
    /\ status = "Idle"
    /\ now = 0
    /\ hist = HoldNote("other", NoRun)
    /\ ui = InitUi

\* Lines 560-572 with 531-536: startRangeTest from the click to its end,
\* stop_stream and start_stream resolving.
StartTest ==
    /\ rt.stageRef = "idle"
    /\ ticks = <<>>
    /\ Pending = 0
    /\ poll' = startLevelPolling(stopLevelPolling(poll))
    /\ rt' = [resetRangeTest(rt) EXCEPT
                  !.stageRef = "capture_low",
                  !.stageEnteredAtRef = now,
                  !.awaitingResultStep = FALSE,
                  !.testInstruction = "sing_lowest"]
    /\ status' = "range_started"
    /\ hist' = HoldNote("start", [NoRun EXCEPT !.changes = hist.changes])
    /\ UNCHANGED <<ticks, flows, now>>

\* Lines 462-499: one tick from the interval callback to its end, both
\* fetches resolving.
Tick(level, pitch) ==
    /\ poll.pollTimerRef # Null
    /\ ~poll.pollInFlightRef
    /\ ticks = <<>>
    /\ Pending = 0
    /\ now' = now + POLL_INTERVAL_MS
    /\ LET safeLevel == safeLevelOf(level)
           safePitch == safePitchOf(pitch)
           out == handlePitchSampleForRangeTest(rt, now', safeLevel, safePitch)
           p1 == [poll EXCEPT !.rawInputLevelRef = safeLevel,
                              !.inputLevelRef = boostedLevelOf(safeLevel),
                              !.pitchData = safePitch]
           run == RunAfter(rt, hist, hist.result, now', safeLevel, safePitch)
       IN  /\ rt' = out.rt
           /\ poll' = [countErrors(p1, TRUE) EXCEPT !.pollInFlightRef = FALSE]
           /\ hist' = [HoldNote("sample", run) EXCEPT
                           !.path = out.path,
                           !.result = out.result,
                           !.cand = out.cand,
                           !.changes = IF safePitch = poll.pitchData
                                       THEN @ ELSE @ + 1]
    /\ UNCHANGED <<ticks, flows, status>>

HoldNext ==
    /\ \/ StartTest
       \/ \E level \in LevelInputs, pitch \in HoldPitchInputs :
              /\ now + POLL_INTERVAL_MS <= MaxHoldTime
              /\ pitch # poll.pitchData => hist.changes < MaxChanges
              /\ Tick(level, pitch)
    /\ UNCHANGED ui

HoldSpec == HoldInit /\ [][HoldNext]_vars

\* ------------------------------------------- the sample source at will
\* A capture fed by ticks that do not overlap anything, as above, with the
\* time between two samples, the level and the pitch drawn from given sets.
\* hist records, beyond the run, every smoothed pitch taken into a stability
\* window since the test started (accepted; observation only), and changes
\* counts the changes of the reading (level and pitch).
SampleNote(op, run, accepted) == [accepted |-> accepted] @@ HoldNote(op, run)

SampleInit ==
    /\ rt = InitRangeTest
    /\ poll = InitPoll
    /\ ticks = <<>>
    /\ flows = [pc \in FlowPcs |-> 0]
    /\ status = "Idle"
    /\ now = 0
    /\ hist = SampleNote("other", NoRun, <<>>)
    /\ ui = InitUi

\* Lines 560-572 with 531-536: startRangeTest from the click to its end,
\* stop_stream and start_stream resolving.
startRangeTest ==
    /\ rt.stageRef = "idle"
    /\ ticks = <<>>
    /\ Pending = 0
    /\ poll' = startLevelPolling(stopLevelPolling(poll))
    /\ rt' = [resetRangeTest(rt) EXCEPT
                  !.stageRef = "capture_low",
                  !.stageEnteredAtRef = now,
                  !.awaitingResultStep = FALSE,
                  !.testInstruction = "sing_lowest"]
    /\ status' = "range_started"
    /\ hist' = SampleNote("start", [NoRun EXCEPT !.changes = hist.changes],
                          <<>>)
    /\ UNCHANGED <<ticks, flows, now>>

\* Lines 462-499: one tick from the interval callback to its end, both
\* fetches resolving, the sample handled d ms after the last one.
Sample(level, pitch, d) ==
    /\ poll.pollTimerRef # Null
    /\ ~poll.pollInFlightRef
    /\ ticks = <<>>
    /\ Pending = 0
    /\ now' = now + d
    /\ LET safeLevel == safeLevelOf(level)
           safePitch == safePitchOf(pitch)
           out == handlePitchSampleForRangeTest(rt, now', safeLevel, safePitch)
           p1 == [poll EXCEPT !.rawInputLevelRef = safeLevel,
                              !.inputLevelRef = boostedLevelOf(safeLevel),
                              !.pitchData = safePitch]
           run == RunAfter(rt, hist, hist.result, now', safeLevel, safePitch)
           accepted ==
               IF out.path \in {"first", "restart", "append", "hold"}
               THEN Append(hist.accepted,
                           smoothMidiOf(rt.lastGoodPitchRef,
                                        frequencyToMidi(safePitch.frequency_hz)))
               ELSE hist.accepted
       IN  /\ rt' = out.rt
           /\ poll' = [countErrors(p1, TRUE) EXCEPT !.pollInFlightRef = FALSE]
           /\ hist' = [SampleNote("sample", run, accepted) EXCEPT
                           !.path = out.path,
                           !.result = out.result,
                           !.cand = out.cand,
                           !.changes =
                               IF safePitch = poll.pitchData
                                  /\ safeLevel = poll.rawInputLevelRef
                               THEN @ ELSE @ + 1]
    /\ UNCHANGED <<ticks, flows, status>>

SampleStep(levels, pitches, steps, maxTime) ==
    /\ \/ startRangeTest
       \/ \E level \in levels, pitch \in pitches, d \in steps :
              /\ now + d <= maxTime
              /\ rt.stageRef # "done"
              /\ (pitch # poll.pitchData \/ level # poll.rawInputLevelRef)
                     => hist.changes < MaxChanges
              /\ Sample(level, pitch, d)
    /\ UNCHANGED ui

\* The validity filter: levels at and above the RMS floor; pitches without
\* an estimate, and with one at a confidence below, at and above the
\* confidence floor, with and without a note name; samples 100 ms and
\* 1100 ms apart.
FilterLevels == {10, 20}

FilterPitches ==
    {NoPitch,
     Pitch(220, 5, "null"),
     Pitch(220, 12, "null"),
     Pitch(220, 12, "A3"),
     Pitch(220, 30, "null")}

FilterSteps == {POLL_INTERVAL_MS, BLIP_MS - POLL_INTERVAL_MS}

FilterNext == SampleStep(FilterLevels, FilterPitches, FilterSteps, MaxFilterTime)

FilterSpec == SampleInit /\ [][FilterNext]_vars

\* The capture of both notes: no estimate, a middling and a high
\* confidence at 57.00, and high confidence at pitches 3.02, 3.99, 4.05 and
\* 12 semitones above it; samples at the poll cadence.
CapturePitches ==
    {NoPitch,
     Pitch(220, 30, "A3"),
     Pitch(220, 60, "A3"),
     Pitch(262, 60, "C4"),
     Pitch(277, 60, "C#4"),
     Pitch(278, 60, "C#4"),
     Pitch(440, 60, "A4")}

CaptureNext ==
    SampleStep(LevelInputs, CapturePitches, {POLL_INTERVAL_MS}, MaxCaptureTime)

CaptureSpec == SampleInit /\ [][CaptureNext]_vars

\* The stability window filled fast: samples 25 ms apart at 57.00, 57.47 and
\* 69.00, all of middling confidence, so that more than STABLE_CAPACITY
\* samples arrive within STABLE_REQUIRED_MS; the source renews its estimate
\* every POLL_INTERVAL_MS.
WindowPitches ==
    {Pitch(220, 30, "A3"),
     Pitch(226, 30, "A3"),
     Pitch(440, 30, "A4")}

WindowSteps == {25}

WindowNext ==
    /\ SampleStep(LevelInputs, WindowPitches, WindowSteps, MaxWindowTime)
    /\ hist'.changes <= MaxWindowChanges
    /\ poll'.pitchData # poll.pitchData => now % POLL_INTERVAL_MS = 0

WindowSpec == SampleInit /\ [][WindowNext]_vars

\* ------------------------------------------------ the degraded source
\* The sample source with either fetch of a tick failing, between starts and
\* stops of the capture, one request at a time. hist records what the tick
\* did (levelOk, pitchOk), the level it handed to the sample handler (used,
\* Null when the handler was not called), the path the handler took, the
\* level most recently fetched with success (fetched, Null before the
\* first), and that level as long as polling has not been stopped or started
\* since, 0 afterwards (inForce).
DegradeNote(op, levelOk, pitchOk, used, path, fetched, inForce) ==
    [op |-> op, levelOk |-> levelOk, pitchOk |-> pitchOk, used |-> used,
     path |-> path, fetched |-> fetched, inForce |-> inForce]

DegradeInit ==
    /\ rt = InitRangeTest
    /\ poll = InitPoll
    /\ ticks = <<>>
    /\ flows = [pc \in FlowPcs |-> 0]
    /\ status = "Idle"
    /\ now = 0
    /\ hist = DegradeNote("other", FALSE, FALSE, Null, "none", Null, 0)
    /\ ui = InitUi

\* Lines 560-572 with 531-536: startRangeTest from the click to its end,
\* stop_stream and start_stream resolving, at any stage of the test.
DegradeStart ==
    /\ poll' = startLevelPolling(stopLevelPolling(poll))
    /\ rt' = [resetRangeTest(rt) EXCEPT
                  !.stageRef = "capture_low",
                  !.stageEnteredAtRef = now,
                  !.awaitingResultStep = FALSE,
                  !.testInstruction = "sing_lowest"]
    /\ status' = "range_started"
    /\ hist' = DegradeNote("start", FALSE, FALSE, Null, "none",
                           hist.fetched, 0)
    /\ UNCHANGED <<ticks, flows, now>>

\* Lines 544-553: stopStream from the click to its end, stop_stream
\* resolving.
DegradeStop ==
    /\ poll.pollTimerRef # Null
    /\ poll' = stopLevelPolling(poll)
    /\ status' = "audio_stopped"
    /\ hist' = DegradeNote("stop", FALSE, FALSE, Null, "none",
                           hist.fetched, 0)
    /\ UNCHANGED <<rt, ticks, flows, now>>

\* A slip in line 466: the level of the sample starts from 0.
DegradeTick_zeroLevel(levelOk, level, pitchOk, pitch, d) ==
    /\ poll.pollTimerRef # Null
    /\ ~poll.pollInFlightRef
    /\ now' = Clock(pitchOk, d)
    /\ LET safeLevel == safeLevelOf(level)
           safePitch == safePitchOf(pitch)
           sampledLevel == IF levelOk THEN safeLevel ELSE 0
           p0 == IF levelOk
                 THEN [poll EXCEPT !.rawInputLevelRef = safeLevel,
                                   !.inputLevelRef = boostedLevelOf(safeLevel)]
                 ELSE poll
           p1 == IF pitchOk THEN [p0 EXCEPT !.pitchData = safePitch] ELSE p0
           p2 == countErrors(p1, levelOk \/ pitchOk)
           out == IF pitchOk
                  THEN handlePitchSampleForRangeTest(rt, now', sampledLevel,
                                                     safePitch)
                  ELSE Outcome(rt, "none", "none", Null)
       IN  /\ rt' = out.rt
           /\ poll' = [p2 EXCEPT !.pollInFlightRef = FALSE]
           /\ hist' = DegradeNote("tick", levelOk, pitchOk,
                                  IF pitchOk THEN sampledLevel ELSE Null,
                                  out.path,
                                  IF levelOk THEN safeLevel ELSE hist.fetched,
                                  IF p2.pollTimerRef = Null THEN 0
                                  ELSE IF levelOk THEN safeLevel
                                  ELSE hist.inForce)
    /\ UNCHANGED <<ticks, flows, status>>

\* Lines 462-499: one tick from the interval callback to its end, each
\* fetch resolving or failing, a sample handled d ms after the last one.
DegradeTick(levelOk, level, pitchOk, pitch, d) ==
    /\ poll.pollTimerRef # Null
    /\ ~poll.pollInFlightRef
    /\ now' = Clock(pitchOk, d)
    /\ LET safeLevel == safeLevelOf(level)
           safePitch == safePitchOf(pitch)
           sampledLevel == IF levelOk THEN safeLevel ELSE poll.rawInputLevelRef
           p0 == IF levelOk
                 THEN [poll EXCEPT !.rawInputLevelRef = safeLevel,
                                   !.inputLevelRef = boostedLevelOf(safeLevel)]
                 ELSE poll
           p1 == IF pitchOk THEN [p0 EXCEPT !.pitchData = safePitch] ELSE p0
           p2 == countErrors(p1, levelOk \/ pitchOk)
           out == IF pitchOk
                  THEN handlePitchSampleForRangeTest(rt, now', sampledLevel,
                                                     safePitch)
                  ELSE Outcome(rt, "none", "none", Null)
       IN  /\ rt' = out.rt
           /\ poll' = [p2 EXCEPT !.pollInFlightRef = FALSE]
           /\ hist' = DegradeNote("tick", levelOk, pitchOk,
                                  IF pitchOk THEN sampledLevel ELSE Null,
                                  out.path,
                                  IF levelOk THEN safeLevel ELSE hist.fetched,
                                  IF p2.pollTimerRef = Null THEN 0
                                  ELSE IF levelOk THEN safeLevel
                                  ELSE hist.inForce)
    /\ UNCHANGED <<ticks, flows, status>>

\* What get_input_level returns here: a level below the RMS floor and one
\* above it.
DegradeLevels == {5, 20}

\* What get_pitch_data returns here: two pitches of middling confidence.
DegradePitches == {Pitch(220, 30, "A3"), Pitch(262, 30, "C4")}

DegradeNext ==
    /\ \/ DegradeStart
       \/ DegradeStop
       \/ \E levelOk \in BOOLEAN, level \in DegradeLevels,
             pitchOk \in BOOLEAN, pitch \in DegradePitches :
              /\ levelOk \/ level = 20
              /\ pitchOk \/ pitch = Pitch(220, 30, "A3")
              /\ now + POLL_INTERVAL_MS <= MaxDegradeTime
              /\ DegradeTick(levelOk, level, pitchOk, pitch, POLL_INTERVAL_MS)
    /\ UNCHANGED ui

DegradeSpec == DegradeInit /\ [][DegradeNext]_vars

\* ------------------------------------------------------ the two Apps
\* The redesigned App and the original one fed the same calls and samples,
\* one tick at a time.  rt holds the range-test cells of the redesigned App
\* and hist.orig those of the original; hist.n counts the calls and samples.
EquivNote(op, path, result, n, orig) ==
    [op |-> op, path |-> path, result |-> result, n |-> n, orig |-> orig]

EquivInit ==
    /\ rt = InitRangeTest
    /\ poll = InitPoll
    /\ ticks = <<>>
    /\ flows = [pc \in FlowPcs |-> 0]
    /\ status = "Idle"
    /\ now = 0
    /\ hist = EquivNote("other", "none", "none", 0, InitRangeTest)
    /\ ui = InitUi

\* startRangeTest of both Apps (lines 560-572; src/src/App.tsx, lines
\* 521-536), stop_stream and start_stream resolving.
EquivStart ==
    /\ poll' = startLevelPolling(stopLevelPolling(poll))
    /\ rt' = [resetRangeTest(rt) EXCEPT
                  !.stageRef = "capture_low",
                  !.stageEnteredAtRef = now,
                  !.awaitingResultStep = FALSE,
                  !.testInstruction = "sing_lowest"]
    /\ status' = "range_started"
    /\ hist' = EquivNote("start", "none", "none", hist.n + 1,
                         [App_resetRangeTest(hist.orig) EXCEPT
                              !.stageRef = "capture_low",
                              !.stageEnteredAtRef = now,
                              !.awaitingResultStep = FALSE,
                              !.testInstruction = "sing_lowest_ah"])
    /\ UNCHANGED <<ticks, flows, now>>

\* resetTestFlow of both Apps (lines 555-558; src/src/App.tsx, lines
\* 516-519), stop_stream resolving.
EquivReset ==
    /\ rt.stageRef # "idle"
    /\ poll' = stopLevelPolling(poll)
    /\ rt' = resetRangeTest(rt)
    /\ status' = "audio_stopped"
    /\ hist' = EquivNote("reset", "none", "none", hist.n + 1,
                         App_resetRangeTest(hist.orig))
    /\ UNCHANGED <<ticks, flows, now>>

\* One tick of both Apps (lines 462-499; src/src/App.tsx, lines 415-457),
\* both fetches resolving, the sample handled d ms after the last one.
EquivSample(level, pitch, d) ==
    /\ poll.pollTimerRef # Null
    /\ ~poll.pollInFlightRef
    /\ now' = now + d
    /\ LET safeLevel == safeLevelOf(level)
           safePitch == safePitchOf(pitch)
           out == handlePitchSampleForRangeTest(rt, now', safeLevel, safePitch)
           app == App_handlePitchSampleForRangeTest(hist.orig, now', safeLevel,
                                                    safePitch)
           p1 == [poll EXCEPT !.rawInputLevelRef = safeLevel,
                              !.inputLevelRef = boostedLevelOf(safeLevel),
                              !.pitchData = safePitch]
       IN  /\ rt' = out.rt
           /\ poll' = [countErrors(p1, TRUE) EXCEPT !.pollInFlightRef = FALSE]
           /\ hist' = EquivNote("sample", out.path, out.result, hist.n + 1,
                                app.rt)
    /\ UNCHANGED <<ticks, flows, status>>

\* What get_pitch_data returns here: no estimate, two pitches 3 semitones
\* apart, each below and above the fast-pass confidence, and one an octave
\* up.
EquivPitches ==
    {NoPitch,
     Pitch(220, 30, "A3"),
     Pitch(220, 60, "A3"),
     Pitch(262, 30, "C4"),
     Pitch(262, 60, "C4"),
     Pitch(440, 30, "A4")}

\* The time between samples: the poll interval, the fast-pass dwell, the
\* stability hold and the blip limit.
EquivSteps == {POLL_INTERVAL_MS, CONFIDENCE_PASS_MS, STABLE_REQUIRED_MS, BLIP_MS}

EquivNext ==
    /\ hist.n < MaxEquivSteps
    /\ \/ EquivStart
       \/ EquivReset
       \/ \E level \in LevelInputs, pitch \in EquivPitches, d \in EquivSteps :
              EquivSample(level, pitch, d)
    /\ UNCHANGED ui

EquivSpec == EquivInit /\ [][EquivNext]_vars

\* --------------------------------------------------- the recommendations
\* The run through the pages: a range test at the poll cadence on Test Live
\* (the singer changes the note only when the stability window is empty),
\* Stop once it is done, and the Recommendations page, entered before the
\* test or after it, with its loadRecommendations calls, one at a time.  The
\* catalog does not change while a call is in flight.
RecoPitchInputs == {Pitch(220, 60, "A3"), Pitch(262, 60, "C4")}

Pages == {"Test Live", "Recommendations"}

Frame(op) == hist' = HoldNote(op, NoRun)

\* Lines 620-621.
setRecommendations(u, merged, how, asked) ==
    [u EXCEPT !.recommendations = merged,
              !.showAllRecommendations = FALSE,
              !.load = NoLoad,
              !.shown = how,
              !.last = [pc |-> asked.pc, range |-> asked.range,
                        importedOnly |-> asked.importedOnly,
                        primary |-> asked.primary, calls |-> asked.calls]]

\* A slip in the catch: line 624, setRecommendations([]), is missing.
LoadFailed_keepsList ==
    /\ ui' = setRecommendations(ui, ui.recommendations, "failed", ui.load)
    /\ status' = "load_failed"

\* Lines 622-626: the catch of loadRecommendations.
LoadFailed ==
    /\ ui' = setRecommendations(ui, <<>>, "failed", ui.load)
    /\ status' = "load_failed"

\* setActivePage, and the effect of lines 688-692 when the page is
\* Recommendations: loadRecommendations reads the RangeResult (line 588) and
\* invokes recommend_imported_songs.
Navigate(page, scenario) ==
    /\ page # ui.activePage
    /\ ui.load = NoLoad
    /\ poll.pollTimerRef = Null \/ rt.stageRef = "done"
    /\ ui' = [ui EXCEPT !.activePage = page,
                        !.load = IF page = "Recommendations"
                                 THEN [pc |-> "imported",
                                       range |-> rt.rangeResult,
                                       backend |-> scenario,
                                       importedOnly |-> <<>>,
                                       primary |-> <<>>,
                                       calls |-> <<"recommend_imported_songs">>]
                                 ELSE NoLoad]
    /\ Frame("navigate")
    /\ UNCHANGED <<rt, poll, ticks, flows, status, now>>

\* Lines 591-598 and 611-621: recommend_imported_songs settles.
ImportedSettled(ok) ==
    /\ ui.load.pc = "imported"
    /\ LET importedOnly == recommend_imported_songs(ui.load.backend)
           load == [ui.load EXCEPT !.importedOnly = importedOnly]
       IN  IF ~ok
           THEN LoadFailed
           ELSE /\ ui' = IF isRangeComplete(load.range)
                         THEN [ui EXCEPT !.load =
                                   [load EXCEPT
                                        !.pc = "primary",
                                        !.calls = Append(@, primaryQuery(load.range))]]
                         ELSE setRecommendations(
                                  ui, mergeRecommendations(<<>>, importedOnly),
                                  "imported", load)
                /\ UNCHANGED status
    /\ Frame("load")
    /\ UNCHANGED <<rt, poll, ticks, flows, now>>

\* Lines 593-605 and 611-621: the first recommend_songs call settles.
PrimarySettled(ok) ==
    /\ ui.load.pc = "primary"
    /\ LET recs == recommend_songs(ui.load.backend, ui.load.backend.primary)
           load == [ui.load EXCEPT !.primary = recs]
       IN  IF ~ok
           THEN LoadFailed
           ELSE /\ ui' = IF needsFallback(recs)
                         THEN [ui EXCEPT !.load =
                                   [load EXCEPT
                                        !.pc = "fallback",
                                        !.calls = Append(@, fallbackQuery(load.range))]]
                         ELSE setRecommendations(
                                  ui, mergeRecommendations(recs, load.importedOnly),
                                  "primary", load)
                /\ UNCHANGED status
    /\ Frame("load")
    /\ UNCHANGED <<rt, poll, ticks, flows, now>>

\* Lines 600-621: the second recommend_songs call settles.
FallbackSettled(ok) ==
    /\ ui.load.pc = "fallback"
    /\ LET recs == recommend_songs(ui.load.backend, ui.load.backend.fallback)
       IN  IF ~ok
           THEN LoadFailed
           ELSE /\ ui' = setRecommendations(
                             ui, mergeRecommendations(recs, ui.load.importedOnly),
                             IF Len(recs) > 0 THEN "fallback" ELSE "imported",
                             ui.load)
                /\ status' = IF Len(recs) > 0 THEN "no_strict_matches" ELSE status
    /\ Frame("load")
    /\ UNCHANGED <<rt, poll, ticks, flows, now>>

\* Line 1289: Show All / Show Top 5.
ToggleShowAll ==
    /\ ui.activePage = "Recommendations"
    /\ Len(ui.recommendations) > TOP_N
    /\ ui' = [ui EXCEPT !.showAllRecommendations = ~@]
    /\ Frame("toggle")
    /\ UNCHANGED <<rt, poll, ticks, flows, status, now>>

RecoNext ==
    \/ /\ ui.activePage = "Test Live"
       /\ StartTest
       /\ UNCHANGED ui
    \/ /\ ui.activePage = "Test Live"
       /\ \E level \in LevelInputs, pitch \in RecoPitchInputs :
              /\ poll.pollTimerRef # Null
              /\ Pending = 0
              /\ rt.stageRef # "done"
              /\ now + POLL_INTERVAL_MS <= MaxHoldTime
              /\ pitch # poll.pitchData =>
                     /\ hist.changes < MaxChanges
                     /\ rt.stableRef.samples = <<>>
              /\ Tick(level, pitch)
       /\ UNCHANGED ui
    \/ /\ ui.activePage = "Test Live"
       /\ rt.stageRef = "done"
       /\ poll.pollTimerRef # Null
       /\ Pending = 0
       /\ ClickStop
       /\ UNCHANGED ui
    \/ (\E ok \in BOOLEAN : StopSettled(ok)) /\ UNCHANGED ui
    \/ \E page \in Pages, scenario \in Scenarios : Navigate(page, scenario)
    \/ \E ok \in BOOLEAN : ImportedSettled(ok)
    \/ \E ok \in BOOLEAN : PrimarySettled(ok)
    \/ \E ok \in BOOLEAN : FallbackSettled(ok)
    \/ ToggleShowAll

RecoSpec == HoldInit /\ [][RecoNext]_vars

\* setActivePage while a loadRecommendations call may be in flight: the
\* call goes on, and entering Recommendations starts another (lines 688-692
\* and 587-591).
NavigateDuringLoad(page, scenario) ==
    /\ page # ui.activePage
    /\ ui.load = NoLoad \/ ui.other = NoLoad
    /\ poll.pollTimerRef = Null \/ rt.stageRef = "done"
    /\ ui' = [ui EXCEPT !.activePage = page,
                        !.other = IF ui.load # NoLoad THEN ui.load ELSE @,
                        !.load = IF page = "Recommendations"
                                 THEN [pc |-> "imported",
                                       range |-> rt.rangeResult,
                                       backend |-> scenario,
                                       importedOnly |-> <<>>,
                                       primary |-> <<>>,
                                       calls |-> <<"recommend_imported_songs">>]
                                 ELSE NoLoad]
    /\ Frame("navigate")
    /\ UNCHANGED <<rt, poll, ticks, flows, status, now>>

\* The backend answers the other call next: the only call left in flight,
\* or the other of two.
AnswersOther ==
    /\ ui.other # NoLoad
    /\ ui' = [ui EXCEPT !.load = ui.other, !.other = ui.load]
    /\ hist' = hist
    /\ UNCHANGED <<rt, poll, ticks, flows, status, now>>

\* The run through the pages with loadRecommendations calls that overlap:
\* the page is left and entered again while a call awaits the backend.
OverlapNext ==
    \/ /\ ui.activePage = "Test Live"
       /\ StartTest
       /\ UNCHANGED ui
    \/ /\ ui.activePage = "Test Live"
       /\ \E level \in LevelInputs, pitch \in RecoPitchInputs :
              /\ poll.pollTimerRef # Null
              /\ Pending = 0
              /\ rt.stageRef # "done"
              /\ now + POLL_INTERVAL_MS <= MaxHoldTime
              /\ pitch # poll.pitchData =>
                     /\ hist.changes < MaxChanges
                     /\ rt.stableRef.samples = <<>>
              /\ Tick(level, pitch)
       /\ UNCHANGED ui
    \/ \E page \in Pages, scenario \in OverlapScenarios :
           NavigateDuringLoad(page, scenario)
    \/ AnswersOther
    \/ \E ok \in BOOLEAN : ImportedSettled(ok)
    \/ \E ok \in BOOLEAN : PrimarySettled(ok)
    \/ \E ok \in BOOLEAN : FallbackSettled(ok)

OverlapSpec == HoldInit /\ [][OverlapNext]_vars

\* Line 1136: a filter chip is clicked, on the list of cards.
setRecoFilter(f) ==
    /\ ui.activePage = "Recommendations"
    /\ ui.load = NoLoad
    /\ ui.recommendations # <<>>
    /\ f # ui.recoFilter
    /\ ui' = [ui EXCEPT !.recoFilter = f]
    /\ Frame("filter")
    /\ UNCHANGED <<rt, poll, ticks, flows, status, now>>

\* The run through the pages, with the filter chips of the list.
ChipNext ==
    \/ RecoNext
    \/ \E f \in RecoFilters : setRecoFilter(f)

ChipSpec == HoldInit /\ [][ChipNext]_vars

\* ---------------------------------------------------------------- claims

\* The statuses with which the code reports a failure.
FailureStatuses == {"start_failed", "stop_failed"}

\* C1: every RangeResult of a finished test has
\* comfortLow <= comfortHigh, low <= comfortLow and comfortHigh <= high.
C1_ComfortWithinRange ==
    rt.stageRef = "done" =>
        /\ rt.rangeResult.comfortLowMidi <= rt.rangeResult.comfortHighMidi
        /\ rt.rangeResult.lowMidi <= rt.rangeResult.comfortLowMidi
        /\ rt.rangeResult.comfortHighMidi <= rt.rangeResult.highMidi

\* C2: the stage starts at Idle; a start leaves it at CaptureLow (through the
\* reset of line 565), a reset at Idle, a handled sample moves it only from
\* CaptureLow to CaptureHigh or from CaptureHigh to Done, and no other step
\* changes it.
C2_StageTransitions ==
    /\ rt.stageRef = "idle"
    /\ [][rt'.stageRef # rt.stageRef =>
            \/ hist'.op = "start" /\ rt'.stageRef = "capture_low"
            \/ hist'.op = "reset" /\ rt'.stageRef = "idle"
            \/ /\ hist'.op = "pitch_ok"
               /\ <<rt.stageRef, rt'.stageRef>> \in
                      {<<"capture_low", "capture_high">>,
                       <<"capture_high", "done">>}]_vars

C2_Witness == rt.stageRef = "done" /\ hist.result = "finished"

\* C3: at most one poll tick is outstanding at any time.
C3_OneTickOutstanding == Len(ticks) <= 1

\* A step in which a handled sample produced, in CaptureHigh, a candidate
\* strictly below low + 0.5 semitones.
RejectedStep ==
    /\ hist'.op = "pitch_ok"
    /\ rt.stageRef = "capture_high"
    /\ hist'.cand # Null
    /\ hist'.cand < rt.lowMidiRef + HIGH_NOTE_MIN_SEMITONES

RejectionKeepsStage ==
    /\ rt'.stageRef = "capture_high"
    /\ rt'.highMidiRef = Null
    /\ rt'.lowMidiRef = rt.lowMidiRef
    /\ rt'.rangeResult = rt.rangeResult
    /\ rt'.stageEnteredAtRef = rt.stageEnteredAtRef
    /\ rt'.testInstruction = "too_close"

\* C4 as stated: a rejected candidate leaves the stage at CaptureHigh and
\* high unset, sets the retry prompt and leaves the rest of the capture state
\* (stability window, smoothing reference, fast-pass timer, pitch history)
\* unchanged.
C4_RejectionChangesNothingElse ==
    [][RejectedStep =>
           /\ RejectionKeepsStage
           /\ rt'.stableRef = rt.stableRef
           /\ rt'.lastGoodPitchRef = rt.lastGoodPitchRef
           /\ rt'.fastPassRef = rt.fastPassRef
           /\ rt'.stableHistoryRef = rt.stableHistoryRef]_vars

\* C4 amended: a rejected candidate leaves the stage at CaptureHigh, high
\* unset and low, the RangeResult and the stage-entry time unchanged, sets
\* the retry prompt, and clears the stability window, the smoothing
\* reference and the fast-pass timer; the pitch history is unchanged for a
\* fast-pass candidate and one sample longer for a stability-hold candidate.
C4_RejectionRestartsWindow ==
    [][RejectedStep =>
           /\ RejectionKeepsStage
           /\ rt'.stableRef = EmptyStable
           /\ rt'.lastGoodPitchRef = Null
           /\ rt'.fastPassRef = NoFastPass
           /\ IF hist'.path = "hold"
              THEN /\ Len(rt'.stableHistoryRef) = Len(rt.stableHistoryRef) + 1
                   /\ SubSeq(rt'.stableHistoryRef, 1, Len(rt.stableHistoryRef))
                          = rt.stableHistoryRef
              ELSE rt'.stableHistoryRef = rt.stableHistoryRef]_vars

C4_Witness ==
    /\ rt.stageRef = "capture_high"
    /\ hist.path = "hold"
    /\ hist.result = "too_close"

\* C5 as stated: while the stage is not Done the RangeResult is never partly
\* populated.
C5_NoPartialResult ==
    rt.stageRef # "done" =>
        \/ rt.rangeResult = EmptyRange
        \/ /\ rt.rangeResult.lowMidi # Null
           /\ rt.rangeResult.highMidi # Null
           /\ rt.rangeResult.comfortLowMidi # Null
           /\ rt.rangeResult.comfortHighMidi # Null

\* C5 amended: while the stage is not Done the RangeResult holds no high
\* note and no comfort bound; its low note is present exactly in CaptureHigh.
C5_OnlyLowBeforeDone ==
    rt.stageRef # "done" =>
        /\ rt.rangeResult.highMidi = Null
        /\ rt.rangeResult.comfortLowMidi = Null
        /\ rt.rangeResult.comfortHighMidi = Null
        /\ rt.rangeResult.lowMidi # Null <=> rt.stageRef = "capture_high"

C5_Witness ==
    /\ rt.stageRef = "capture_high"
    /\ rt.rangeResult.lowMidi # Null
    /\ poll.pollTimerRef = Null
    /\ hist.op = "stop"

\* C6: once the stage is Done, no step other than a reset or a new start
\* changes the stage or the RangeResult.
C6_DoneIsFrozen ==
    [][rt.stageRef = "done" /\ hist'.op \notin {"start", "reset"} =>
           /\ rt'.stageRef = "done"
           /\ rt'.rangeResult = rt.rangeResult]_vars

C6_Witness ==
    /\ rt.stageRef = "done"
    /\ hist.op = "pitch_ok"
    /\ hist.path = "ignored"
    /\ poll.pitchData.frequency_hz # Null

C8_StoppedStaysCleared ==
    poll.pollTimerRef = Null =>
        /\ poll.rawInputLevelRef = 0
        /\ poll.inputLevelRef = 0
        /\ poll.pitchData = NoPitch
        /\ poll.pollErrorCountRef = 0

\* C9: when the 20th consecutive tick with both fetches failed ends, the
\* poll loop is stopped and the status reports a failure.
C9_SelfStopReportsFailure ==
    hist.selfStop =>
        /\ poll.pollTimerRef = Null
        /\ status \in FailureStatuses

\* C10: it never happens that from some point on polling goes on, no pitch
\* fetch succeeds and no failure status is shown.
C10_PitchFailureSurfaces ==
    []<>(\/ poll.pollTimerRef = Null
         \/ status \in FailureStatuses
         \/ hist.op = "pitch_ok")

\* C11: a tick in which the pitch fetch fails, with or without a failure of
\* the level fetch, leaves the capture state (stage, RangeResult, stability
\* window, fast-pass timer, pitch history and every other cell of the range
\* test) unchanged in each of its steps, and the tick ends: its failure is
\* counted and the tick is no longer outstanding.
C11_FailedTickKeepsCapture ==
    [][/\ ticks' # ticks /\ hist'.op # "pitch_ok" => rt' = rt
       /\ hist'.op = "pitch_fail" =>
              /\ Len(ticks') = Len(ticks) - 1
              /\ ~poll'.pollInFlightRef
              /\ status' = status]_vars

C11_Witness ==
    /\ hist.op = "pitch_fail"
    /\ poll.pollErrorCountRef > 0
    /\ rt.stageRef = "capture_high"
    /\ rt.stableRef.samples # <<>>
    /\ poll.pitchData.frequency_hz # Null

\* The time the run of stable samples has lasted after the step.
RunSpan == now' - hist'.runStart

\* A step that handled a sample belonging to a run of stable samples.
StableSampleStep == hist'.op = "sample" /\ hist'.runRaw # <<>>

\* The pitches the smoothing of line 414 makes of a series of pitches that
\* starts without a smoothing reference and has no jump above 4 semitones.
RECURSIVE Smoothed(_)
Smoothed(raw) ==
    IF Len(raw) <= 1 THEN raw
    ELSE LET before == Smoothed(SubSeq(raw, 1, Len(raw) - 1))
         IN  Append(before,
                    (before[Len(before)] * 65 + raw[Len(raw)] * 35) \div 100)

\* C12 as stated: in a capture stage a run of samples above the level floor
\* and within +/-1 semitone of a fixed pitch never lasts 600 ms plus one
\* sample interval without the stage being finalized, and a candidate
\* produced once the run has lasted 600 ms finalizes the stage with the
\* median of the run's samples (taken as delivered, or smoothed from the
\* run's first sample on).
C12_StableRunFinalizes ==
    [][StableSampleStep =>
           /\ RunSpan < STABLE_REQUIRED_MS + POLL_INTERVAL_MS
           /\ RunSpan >= STABLE_REQUIRED_MS /\ hist'.result # "none" =>
                  /\ rt'.stageRef # rt.stageRef
                  /\ hist'.cand \in {median(hist'.runRaw),
                                    median(Smoothed(hist'.runRaw))}]_vars

\* C12 amended: when such a run begins on an empty stability window without
\* a smoothing reference and all its samples have confidence below 0.55, the
\* first sample at or after 600 ms from the run's first sample produces a
\* stability-hold candidate, the median of the run's smoothed pitches; the
\* candidate finalizes the stage unless, in CaptureHigh, it is below
\* low + 0.5 semitones and is rejected.
C12_FreshRunFinalizes ==
    [][/\ StableSampleStep
       /\ hist'.runFresh
       /\ hist'.runLowConf
       /\ RunSpan >= STABLE_REQUIRED_MS
       => /\ RunSpan < STABLE_REQUIRED_MS + POLL_INTERVAL_MS
          /\ hist'.path = "hold"
          /\ hist'.cand = median(Smoothed(hist'.runRaw))
          /\ \/ /\ rt.stageRef = "capture_low"
                /\ rt'.stageRef = "capture_high"
                /\ rt'.lowMidiRef = hist'.cand
             \/ /\ rt.stageRef = "capture_high"
                /\ hist'.cand >= rt.lowMidiRef + HIGH_NOTE_MIN_SEMITONES
                /\ rt'.stageRef = "done"
                /\ rt'.highMidiRef = hist'.cand
             \/ /\ rt.stageRef = "capture_high"
                /\ hist'.cand < rt.lowMidiRef + HIGH_NOTE_MIN_SEMITONES
                /\ rt'.stageRef = "capture_high"
                /\ hist'.result = "too_close"]_vars

C12_Witness ==
    /\ hist.op = "sample"
    /\ hist.path = "hold"
    /\ hist.runFresh
    /\ hist.runLowConf
    /\ now - hist.runStart >= STABLE_REQUIRED_MS
    /\ rt.stageRef = "capture_high"
    /\ rt.lowMidiRef = median(Smoothed(hist.runRaw))
    /\ rt.lowMidiRef # median(hist.runRaw)

\* C13 as stated: a stability hold produces a candidate only after 600 ms of
\* stable samples, all with confidence below 0.55; a fast-pass only after
\* 250 ms of confidence at or above 0.55.
C13_HoldOnlyAfterLowConfidenceRun ==
    [][/\ hist'.path = "hold" =>
              /\ hist'.runRaw # <<>>
              /\ RunSpan >= STABLE_REQUIRED_MS
              /\ hist'.runLowConf
       /\ hist'.path = "fast_pass" =>
              /\ hist'.passSince # Null
              /\ now' - hist'.passSince >= CONFIDENCE_PASS_MS]_vars

\* C13 amended: a stability hold produces a candidate only when the
\* stability window was anchored at least 600 ms earlier by a valid sample of
\* the same stage, with no candidate since, whatever the confidence of its
\* samples, and the sample does not complete 250 ms of unbroken confidence at
\* or above 0.55; a fast-pass only after 250 ms of unbroken confidence at or
\* above 0.55.
C13_HoldOnlyAfterAnchoredWindow ==
    [][/\ hist'.path = "hold" =>
              /\ rt.stableRef.startAt # Null
              /\ now' - rt.stableRef.startAt >= STABLE_REQUIRED_MS
              /\ hist'.validSince # Null
              /\ hist'.validSince <= rt.stableRef.startAt
              /\ rt.stableRef.startAt >= rt.stageEnteredAtRef
              /\ \/ hist'.passSince = Null
                 \/ now' - hist'.passSince < CONFIDENCE_PASS_MS
       /\ hist'.path = "fast_pass" =>
              /\ hist'.passSince # Null
              /\ now' - hist'.passSince >= CONFIDENCE_PASS_MS]_vars

C13_Witness ==
    /\ hist.op = "sample"
    /\ hist.path = "hold"
    /\ hist.result = "low_captured"
    /\ ~hist.runLowConf
    /\ hist.passSince = now

\* The list now held was set by a loadRecommendations call that completed
\* without an error.
LoadedList == ui.shown \in {"imported", "primary", "fallback"}

\* How many entries of a list are the given entry.
Occurrences(song, songs) ==
    Cardinality({i \in 1..Len(songs) : songs[i] = song})

\* C14: after loadRecommendations completed successfully, every entry that
\* recommend_imported_songs returned is in the merged list exactly once.
C14_EveryImportedOnce ==
    LoadedList =>
        \A i \in 1..Len(ui.last.importedOnly) :
            Occurrences(ui.last.importedOnly[i], ui.recommendations) = 1

\* C15: of a loadRecommendations call, in flight or completed: the second
\* recommend_songs call is made exactly when the first, made with the
\* rounded bounds, returned no result, and it is made with low - 4, high + 4,
\* comfortLow - 2 and comfortHigh + 2 of the rounded bounds; when the first
\* call returned a result, the list set begins with its results and the
\* second call was not made.
C15_FallbackIffPrimaryEmpty ==
    \A call \in {ui.load, ui.last} :
        call.pc # "none" =>
            /\ Len(call.calls) <= 3
            /\ Len(call.calls) >= 2 =>
                   /\ isRangeComplete(call.range)
                   /\ call.calls[2] =
                          [userLowMidi |-> (call.range.lowMidi + 50) \div 100,
                           userHighMidi |-> (call.range.highMidi + 50) \div 100,
                           comfortLowMidi |->
                               (call.range.comfortLowMidi + 50) \div 100,
                           comfortHighMidi |->
                               (call.range.comfortHighMidi + 50) \div 100]
            /\ Len(call.calls) = 3 =>
                   /\ call.primary = <<>>
                   /\ call.calls[3] =
                          [userLowMidi |-> call.calls[2].userLowMidi - 4,
                           userHighMidi |-> call.calls[2].userHighMidi + 4,
                           comfortLowMidi |-> call.calls[2].comfortLowMidi - 2,
                           comfortHighMidi |-> call.calls[2].comfortHighMidi + 2]
            /\ call.pc = "fallback" \/ (call = ui.last /\ LoadedList
                                        /\ isRangeComplete(call.range)) =>
                   /\ call.primary = <<>> => Len(call.calls) = 3
                   /\ call.primary # <<>> =>
                          /\ Len(call.calls) = 2
                          /\ call = ui.last =>
                                 /\ ui.shown = "primary"
                                 /\ SubSeq(ui.recommendations, 1,
                                           Len(call.primary)) = call.primary

C15_Witness ==
    /\ ui.shown = "fallback"
    /\ Len(ui.last.calls) = 3
    /\ ui.last.calls[2].userLowMidi = 57
    /\ ui.last.calls[3].userLowMidi = 53
    /\ ui.recommendations # <<>>

\* C16: whenever the Recommendations page shows a list obtained from the
\* widened query, the status line says that there are no strict matches.
C16_FallbackIsFlagged ==
    ui.activePage = "Recommendations" /\ ui.shown = "fallback" =>
        status = "no_strict_matches"

\* C17: the list set by loadRecommendations is in descending order of
\* fit_score, equal scores in ascending order of |shift|, and equal scores
\* and |shift| in catalog order.
C17_MergedIsSorted ==
    LoadedList =>
        \A i, j \in 1..Len(ui.recommendations) :
            i < j =>
                LET a == ui.recommendations[i]
                    b == ui.recommendations[j]
                    absA == IF a.shift < 0 THEN -a.shift ELSE a.shift
                    absB == IF b.shift < 0 THEN -b.shift ELSE b.shift
                IN  \/ a.fit_score > b.fit_score
                    \/ a.fit_score = b.fit_score /\ absA < absB
                    \/ a.fit_score = b.fit_score /\ absA = absB /\ a.id < b.id

C17_Witness ==
    /\ ui.shown = "primary"
    /\ Len(ui.recommendations) = Len(Catalog)
    /\ ui.last.importedOnly # <<>>
    /\ \E i, j \in 1..Len(ui.recommendations) :
           /\ i < j
           /\ ui.recommendations[i].fit_score = ui.recommendations[j].fit_score
           /\ ui.recommendations[i].shift = 0
           /\ ui.recommendations[j].shift = -1
           /\ ui.recommendations[i].id > ui.recommendations[j].id
    /\ \E i, j \in 1..Len(ui.recommendations) :
           /\ i < j
           /\ ui.recommendations[i].fit_score > ui.recommendations[j].fit_score
           /\ ui.recommendations[i].id > ui.recommendations[j].id

\* C18: in the default view the visible list is the first 5 recommendations
\* followed by every imported recommendation after them, in list order, so
\* that every imported recommendation is visible.
C18_ImportedVisibleByDefault ==
    ~ui.showAllRecommendations =>
        LET all == ui.recommendations
            visible == visibleRecommendations(all, ui.showAllRecommendations)
            top == SubSeq(all, 1, IF Len(all) < 5 THEN Len(all) ELSE 5)
            rest == SubSeq(all, Len(top) + 1, Len(all))
            IsImported(song) == song.is_imported
        IN  /\ visible = top \o SelectSeq(rest, IsImported)
            /\ \A i \in 1..Len(all) :
                   all[i].is_imported => Occurrences(all[i], visible) = 1

\* C19: every recommendation in the list has fit_score in [0, 100].
C19_ScoreInRange ==
    \A i \in 1..Len(ui.recommendations) :
        /\ ui.recommendations[i].fit_score >= 0
        /\ ui.recommendations[i].fit_score <= 100

C19_Witness ==
    /\ LoadedList
    /\ \E i, j \in 1..Len(ui.recommendations) :
           /\ ui.recommendations[i].fit_score = 100
           /\ ui.recommendations[j].fit_score = 0

\* C20: the bucket of every score, those of the recommendations shown among
\* them, is Great Fit exactly from 90, Singable exactly from 75 to below 90,
\* Challenging exactly from 60 to below 75 and Not Recommended exactly below
\* 60.
C20_BucketThresholds ==
    \A score \in (0..100) \cup
                 {ui.recommendations[i].fit_score :
                      i \in 1..Len(ui.recommendations)} :
        LET label == fitBucket(score).label
        IN  /\ label = "Great Fit" <=> score >= 90
            /\ label = "Singable" <=> score >= 75 /\ score < 90
            /\ label = "Challenging" <=> score >= 60 /\ score < 75
            /\ label = "Not Recommended" <=> score < 60

C20_Witness ==
    /\ ui.activePage = "Recommendations"
    /\ \A score \in {90, 75, 60, 59} :
           \E i \in 1..Len(ui.recommendations) :
               /\ ui.recommendations[i].fit_score = score
               /\ fitBucket(score).className =
                      (CASE score = 90 -> "great"
                         [] score = 75 -> "singable"
                         [] score = 60 -> "challenging"
                         [] OTHER -> "low")

\* A step in which the sample handler worked on a sample in a capture stage;
\* the level and the pitch of the sample are what the step leaves in the
\* level and pitch display.
HandledSample == hist'.op = "sample" /\ isCapturing(rt.stageRef)

\* The handler treated the sample as invalid.
TreatedInvalid == hist'.path \in {"blip", "invalid_reset"}

\* C21: a sample is treated as valid exactly when its level is above the RMS
\* floor, it has a positive frequency, and its confidence is above the
\* confidence floor or it has a note name.
C21_ValidIffConfidentOrNamed ==
    [][HandledSample =>
           (~TreatedInvalid <=>
                /\ poll'.rawInputLevelRef > RMS_THRESHOLD
                /\ poll'.pitchData.frequency_hz # Null
                /\ poll'.pitchData.frequency_hz > 0
                /\ \/ poll'.pitchData.confidence > CONFIDENCE_THRESHOLD
                   \/ poll'.pitchData.note_name # "null")]_vars

\* C22: the sample that takes the test from CaptureLow to CaptureHigh arms
\* the silence gate, and a sample handled in CaptureHigh right after it,
\* before the level has been below 0.6 x the RMS floor at all, is not taken
\* into the stability window and does not start the fast-pass timer.
C22_SilenceBeforeHigh ==
    [][/\ rt.stageRef = "capture_low" /\ rt'.stageRef = "capture_high" =>
              rt'.waitForSilenceBeforeHighRef
       /\ /\ hist'.op = "sample"
          /\ hist.result = "low_captured"
          /\ rt.stageRef = "capture_high"
          /\ poll'.rawInputLevelRef * 10 >= RMS_THRESHOLD * 6
          => /\ rt'.stableRef.samples = <<>>
             /\ rt'.fastPassRef.startAt = Null]_vars

\* C23: whenever the test is in CaptureHigh the low note is recorded, and
\* whenever it is Done the RangeResult has both notes, the high one at least
\* 0.5 semitones above the low one; the sample that finished the test handed
\* over a candidate that high, and it is the high note.
C23_HighAboveLow ==
    /\ rt.stageRef = "capture_high" =>
           /\ rt.lowMidiRef # Null
           /\ rt.rangeResult.lowMidi = rt.lowMidiRef
    /\ rt.stageRef = "done" =>
           /\ rt.rangeResult.lowMidi # Null
           /\ rt.rangeResult.highMidi # Null
           /\ rt.rangeResult.lowMidi = rt.lowMidiRef
           /\ rt.rangeResult.highMidi = rt.highMidiRef
           /\ rt.rangeResult.highMidi >=
                  rt.rangeResult.lowMidi + HIGH_NOTE_MIN_SEMITONES
    /\ hist.result = "finished" =>
           /\ rt.stageRef = "done"
           /\ hist.cand = rt.rangeResult.highMidi

C23_Witness ==
    /\ rt.stageRef = "done"
    /\ hist.result = "finished"
    /\ hist.path = "hold"
    /\ rt.rangeResult.lowMidi = 5700
    /\ rt.rangeResult.highMidi = 6002

\* C24: in Done the comfort bounds are max(low, center - 3) and
\* min(high, center + 3), where center is the median of every smoothed pitch
\* taken into a stability window since the test started, in either stage, or
\* (low + high) / 2 when there is none.
C24_CenterOfAcceptedSamples ==
    rt.stageRef = "done" =>
        LET low == rt.rangeResult.lowMidi
            high == rt.rangeResult.highMidi
            center == IF hist.accepted # <<>>
                      THEN median(hist.accepted)
                      ELSE (low + high) \div 2
        IN  /\ rt.rangeResult.comfortLowMidi = Max(low, center - 300)
            /\ rt.rangeResult.comfortHighMidi = Min(high, center + 300)

\* C25: a sample finalizes a stage by fast-pass only when it is valid with
\* confidence at or above 0.55 and the unbroken series of such samples that
\* it ends (begun after the last invalid or lower-confidence sample, stage
\* completion, rejection or start) began at least 250 ms earlier; the note
\* recorded is the sample's own pitch, unsmoothed.
C25_FastPassAfterUnbrokenDwell ==
    [][/\ hist'.op = "sample"
       /\ hist'.path = "fast_pass"
       /\ rt'.stageRef # rt.stageRef
       => /\ poll'.rawInputLevelRef > RMS_THRESHOLD
          /\ poll'.pitchData.frequency_hz # Null
          /\ poll'.pitchData.confidence >= CONFIDENCE_PASS_THRESHOLD
          /\ hist'.passSince # Null
          /\ now' - hist'.passSince >= CONFIDENCE_PASS_MS
          /\ hist'.cand = frequencyToMidi(poll'.pitchData.frequency_hz)
          /\ \/ rt.stageRef = "capture_low" /\ rt'.lowMidiRef = hist'.cand
             \/ rt.stageRef = "capture_high" /\ rt'.highMidiRef = hist'.cand]_vars

C25_Witness ==
    /\ hist.op = "sample"
    /\ hist.path = "fast_pass"
    /\ hist.result = "finished"
    /\ now - hist.passSince >= CONFIDENCE_PASS_MS
    /\ rt.highMidiRef = 6002
    /\ hist.accepted # <<>>
    /\ hist.accepted[Len(hist.accepted)] = 5873

\* A step in which a valid sample reached the stability window.
WindowStep ==
    /\ hist'.op = "sample"
    /\ hist'.path \in {"first", "restart", "append", "hold"}

\* The smoothed pitch of the sample of the step.
SmoothedSample == hist'.accepted[Len(hist'.accepted)]

\* The window with the sample appended, the oldest evicted over 20 entries.
WindowWith(sample) ==
    LET pushed == Append(rt.stableRef.samples, sample)
    IN  IF Len(pushed) > 20 THEN Tail(pushed) ELSE pushed

\* The sample restarts the window: it is empty, or its median is more than 2
\* semitones away.
Deviates(sample) ==
    \/ rt.stableRef.samples = <<>>
    \/ Abs(sample - median(rt.stableRef.samples)) > 200

\* The window is the sample alone, anchored at the sample's timestamp.
WindowRestarted(sample) ==
    /\ rt'.stableRef = [startAt |-> now', lastValidAt |-> now',
                        samples |-> <<sample>>]
    /\ rt'.stageRef = rt.stageRef

\* The window is one sample longer, within 20 entries, on its anchor.
WindowAppended(sample) ==
    /\ rt'.stableRef = [startAt |-> rt.stableRef.startAt,
                        lastValidAt |-> now',
                        samples |-> WindowWith(sample)]
    /\ rt'.stageRef = rt.stageRef

\* C26 as stated: a valid sample more than 2 semitones from the window
\* median becomes the window, anchored at its timestamp; any other is
\* appended, the window keeping its latest 20 entries, and as soon as
\* timestamp - anchor >= 600 ms the stage is finalized with the median of
\* the window.
C26_WindowFinalizesStage ==
    [][WindowStep =>
           /\ Len(rt'.stableRef.samples) <= 20
           /\ IF Deviates(SmoothedSample)
              THEN WindowRestarted(SmoothedSample)
              ELSE IF now' - rt.stableRef.startAt < 600
              THEN WindowAppended(SmoothedSample)
              ELSE /\ hist'.cand = median(WindowWith(SmoothedSample))
                   /\ \/ /\ rt.stageRef = "capture_low"
                         /\ rt'.stageRef = "capture_high"
                         /\ rt'.lowMidiRef = hist'.cand
                      \/ /\ rt.stageRef = "capture_high"
                         /\ rt'.stageRef = "done"
                         /\ rt'.highMidiRef = hist'.cand]_vars

\* C26 amended: as stated, except that in CaptureHigh the median of the
\* window finalizes the stage only when it is at least 0.5 semitones above
\* the low note and the stage is 200 ms old; otherwise it is rejected, the
\* stage stays CaptureHigh and the window is emptied.
C26_WindowProducesCandidate ==
    [][WindowStep =>
           /\ Len(rt'.stableRef.samples) <= 20
           /\ IF Deviates(SmoothedSample)
              THEN WindowRestarted(SmoothedSample)
              ELSE IF now' - rt.stableRef.startAt < 600
              THEN WindowAppended(SmoothedSample)
              ELSE /\ hist'.cand = median(WindowWith(SmoothedSample))
                   /\ rt'.stableRef = EmptyStable
                   /\ \/ /\ rt.stageRef = "capture_low"
                         /\ rt'.stageRef = "capture_high"
                         /\ rt'.lowMidiRef = hist'.cand
                      \/ /\ rt.stageRef = "capture_high"
                         /\ hist'.cand >= rt.lowMidiRef + 50
                         /\ now' - rt.stageEnteredAtRef >= 200
                         /\ rt'.stageRef = "done"
                         /\ rt'.highMidiRef = hist'.cand
                      \/ /\ rt.stageRef = "capture_high"
                         /\ \/ hist'.cand < rt.lowMidiRef + 50
                            \/ now' - rt.stageEnteredAtRef < 200
                         /\ rt'.stageRef = "capture_high"
                         /\ rt'.highMidiRef = Null]_vars

C26_Witness ==
    /\ hist.op = "sample"
    /\ hist.path = "hold"
    /\ rt.stageRef = "capture_high"
    /\ Len(hist.accepted) = 25
    /\ hist.accepted[1] # hist.accepted[25]
    /\ rt.lowMidiRef = median(SubSeq(hist.accepted, 6, 25))
    /\ rt.lowMidiRef # median(hist.accepted)

\* C27: an invalid sample less than 1200 ms after the last valid sample of
\* the window leaves the window (anchor, last valid time, samples) and the
\* smoothing reference as they were; one at 1200 ms or later, or with no
\* valid sample in the window, empties the window and clears the smoothing
\* reference.
C27_BlipKeepsWindow ==
    [][(HandledSample /\ TreatedInvalid) =>
           IF /\ rt.stableRef.lastValidAt # Null
              /\ now' - rt.stableRef.lastValidAt < 1200
           THEN /\ rt'.stableRef = rt.stableRef
                /\ rt'.lastGoodPitchRef = rt.lastGoodPitchRef
           ELSE /\ rt'.stableRef = EmptyStable
                /\ rt'.lastGoodPitchRef = Null]_vars

C27_Witness ==
    /\ hist.op = "sample"
    /\ hist.path = "blip"
    /\ rt.stableRef.samples # <<>>
    /\ rt.lastGoodPitchRef # Null
    /\ now - rt.stableRef.lastValidAt = 1100

\* C28: the stage entry time is the timestamp of the sample that moved the
\* test from CaptureLow to CaptureHigh, it stands while the stage is
\* CaptureHigh, and the test reaches Done no earlier than 200 ms after it.
C28_HighStageDwell ==
    [][/\ (rt.stageRef = "capture_low" /\ rt'.stageRef = "capture_high")
              => rt'.stageEnteredAtRef = now'
       /\ (rt.stageRef = "capture_high" /\ rt'.stageRef = "capture_high")
              => rt'.stageEnteredAtRef = rt.stageEnteredAtRef
       /\ (rt.stageRef = "capture_high" /\ rt'.stageRef = "done")
              => now' - rt.stageEnteredAtRef >= 200]_vars

C28_Witness ==
    /\ rt.stageRef = "done"
    /\ hist.op = "pitch_ok"
    /\ hist.path = "fast_pass"
    /\ hist.result = "finished"
    /\ now - rt.stageEnteredAtRef = 250

\* C29: the smoothed pitch of a valid sample that reaches the smoothing step
\* is 0.65 * prev + 0.35 * new (to the cent) when a previous smoothed pitch
\* exists and |new - prev| <= 4 semitones, and new itself otherwise; it lies
\* between prev and new inclusive, and it is the next smoothing reference
\* unless the sample ends the stage.
C29_SmoothedPitch ==
    [][WindowStep =>
           LET prev == rt.lastGoodPitchRef
               new == frequencyToMidi(poll'.pitchData.frequency_hz)
               smoothed == SmoothedSample
           IN  /\ IF prev # Null /\ Abs(new - prev) <= 400
                  THEN /\ 100 * smoothed <= 65 * prev + 35 * new
                       /\ 65 * prev + 35 * new < 100 * smoothed + 100
                       /\ smoothed >= (IF prev < new THEN prev ELSE new)
                       /\ smoothed <= (IF prev < new THEN new ELSE prev)
                  ELSE smoothed = new
               /\ hist'.path # "hold" => rt'.lastGoodPitchRef = smoothed
               /\ rt'.stableRef.samples # <<>> =>
                      rt'.stableRef.samples[Len(rt'.stableRef.samples)]
                          = smoothed]_vars

C29_Witness ==
    /\ hist.op = "sample"
    /\ hist.path = "append"
    /\ poll.pitchData.frequency_hz = 277
    /\ Len(hist.accepted) >= 2
    /\ hist.accepted[Len(hist.accepted) - 1] = 5700
    /\ rt.lastGoodPitchRef = 5839

\* The step ends a tick: its pitch fetch has settled.
TickEnds == hist'.op \in {"pitch_ok", "pitch_fail"}

\* The tick that ends in the step had both of its fetches fail.
TotalFailure ==
    /\ hist'.op = "pitch_fail"
    /\ \E i \in 1..Len(ticks) :
           /\ ticks[i].pc = "pitch"
           /\ ticks' = RemoveAt(ticks, i)
           /\ ~ticks[i].hasAnySuccess

\* C30: the failure counter grows only at the end of a tick in which both
\* fetches failed, and then by one; a tick with a success ends with the
\* counter at zero; the end of a tick clears the poll timer exactly when it
\* is a total failure that takes the counter to 20, the counter starting
\* again from zero.
C30_TotalFailuresCounted ==
    [][/\ poll'.pollErrorCountRef > poll.pollErrorCountRef =>
              /\ TickEnds
              /\ TotalFailure
              /\ poll'.pollErrorCountRef = poll.pollErrorCountRef + 1
       /\ (TickEnds /\ ~TotalFailure) =>
              /\ poll'.pollErrorCountRef = 0
              /\ poll'.pollTimerRef = poll.pollTimerRef
       /\ (TickEnds /\ TotalFailure) =>
              IF poll.pollErrorCountRef + 1 = 20
              THEN /\ poll'.pollTimerRef = Null
                   /\ poll'.pollErrorCountRef = 0
              ELSE /\ poll'.pollTimerRef = poll.pollTimerRef
                   /\ poll'.pollErrorCountRef = poll.pollErrorCountRef + 1
       /\ poll.pollErrorCountRef \in 0..19]_vars

C30_Witness ==
    /\ hist.op = "pitch_fail"
    /\ hist.selfStop
    /\ poll.pollTimerRef = Null
    /\ poll.pollErrorCountRef = 0
    /\ ticks = <<>>

\* C31 as stated: a tick whose level fetch fails and whose pitch fetch
\* succeeds hands the handler the level most recently fetched with success;
\* a tick whose pitch fetch fails leaves the pitch as it was, and records
\* the level it fetched.
C31_FailedFetchKeepsOther ==
    [][hist'.op = "tick" =>
           /\ (~hist'.levelOk /\ hist'.pitchOk /\ hist.fetched # Null)
                  => hist'.used = hist.fetched
           /\ ~hist'.pitchOk => poll'.pitchData = poll.pitchData
           /\ (~hist'.pitchOk /\ hist'.levelOk)
                  => poll'.rawInputLevelRef = hist'.fetched]_vars

\* C31 amended: the level handed to the handler is the one in force when the
\* tick began, that is the one most recently fetched, or 0 when polling has
\* been started or stopped since or none was fetched; the pitch stays as it
\* was unless the tick is the 20th total failure in a row, which stops
\* polling and clears the pitch.
C31_FailedFetchKeepsOtherSinceStart ==
    [][hist'.op = "tick" =>
           /\ (~hist'.levelOk /\ hist'.pitchOk)
                  => /\ hist'.used = hist.inForce
                     /\ hist.inForce \in {0, hist.fetched}
                     /\ hist'.path \in {"blip", "invalid_reset"}
                            <=> hist.inForce <= RMS_THRESHOLD
           /\ ~hist'.pitchOk =>
                  IF ~hist'.levelOk /\ poll.pollErrorCountRef + 1 = 20
                  THEN poll'.pitchData = NoPitch /\ poll'.pollTimerRef = Null
                  ELSE poll'.pitchData = poll.pitchData
           /\ (~hist'.pitchOk /\ hist'.levelOk)
                  => /\ poll'.rawInputLevelRef = hist'.fetched
                     /\ poll'.pollErrorCountRef = 0]_vars

C31_Witness ==
    /\ hist.op = "tick"
    /\ ~hist.levelOk
    /\ hist.pitchOk
    /\ hist.fetched = 20
    /\ hist.used = 20
    /\ hist.path = "append"
    /\ poll.pitchData.frequency_hz = 262

\* The cards of the Recommendations page.
Cards ==
    filtered(visibleRecommendations(ui.recommendations,
                                    ui.showAllRecommendations),
             ui.recoFilter)

\* C32: the recommendations shown are the visible ones of the list, whatever
\* bucket their fit_score falls into.
C32_BucketsDoNotFilter ==
    Cards = visibleRecommendations(ui.recommendations,
                                   ui.showAllRecommendations)

\* A loadRecommendations call ends in its catch: one of its backend calls
\* failed.
LoadFails ==
    /\ ui.load # NoLoad
    /\ hist'.op = "load"
    /\ ui'.load = NoLoad
    /\ ui'.shown = "failed"

\* C33: when a backend call of loadRecommendations fails, whichever of the
\* three it is, the list becomes empty, the status reports the failure and
\* the call is over; and every list displayed is empty or the whole merge of
\* a call that completed, never what a failed call had gathered.
C33_FailedLoadShowsNothing ==
    [][/\ LoadFails =>
              /\ ui'.recommendations = <<>>
              /\ ~ui'.showAllRecommendations
              /\ status' = "load_failed"
              /\ rt' = rt
       /\ ui'.recommendations # <<>> =>
              /\ ui'.shown \in {"imported", "primary", "fallback"}
              /\ ui'.recommendations # ui.recommendations =>
                     /\ ui'.load = NoLoad
                     /\ ui.load.pc \in {"imported", "primary", "fallback"}]_vars

C33_Witness ==
    /\ ui.shown = "failed"
    /\ ui.last.pc = "primary"
    /\ ui.last.importedOnly # <<>>
    /\ ui.recommendations = <<>>
    /\ status = "load_failed"
    /\ rt.stageRef = "done"

\* The capture state of an App: stage, low, high and comfort values,
\* stability window, fast-pass timer and pitch history.
CaptureState(r) ==
    [stage |-> r.stageRef,
     lowMidi |-> r.lowMidiRef,
     highMidi |-> r.highMidiRef,
     rangeResult |-> r.rangeResult,
     stableRef |-> r.stableRef,
     fastPassRef |-> r.fastPassRef,
     stableHistoryRef |-> r.stableHistoryRef]

\* C34: fed the same start and reset calls and the same samples, one tick at
\* a time, the redesigned App and the original App have the same capture
\* state after every step.
C34_SameCaptureState == CaptureState(rt) = CaptureState(hist.orig)

C34_Witness ==
    /\ hist.op = "sample"
    /\ hist.path = "hold"
    /\ hist.orig.stageRef = "done"
    /\ rt.stageRef = "done"
    /\ rt.rangeResult.lowMidi = 5700
    /\ rt.rangeResult.highMidi = 6002
    /\ hist.orig.testInstruction = rt.testInstruction

\* C35: in Idle and CaptureLow no value is recorded; in CaptureHigh the low
\* note is recorded and nothing else; the stage is Done exactly when low,
\* high and both comfort bounds are recorded; and finishRangeTest never
\* finds a value missing.
C35_StageMatchesValues ==
    /\ rt.stageRef \in {"idle", "capture_low"} =>
           /\ rt.rangeResult = EmptyRange
           /\ rt.lowMidiRef = Null
           /\ rt.highMidiRef = Null
    /\ rt.stageRef = "capture_high" =>
           /\ rt.lowMidiRef # Null
           /\ rt.rangeResult = [EmptyRange EXCEPT !.lowMidi = rt.lowMidiRef]
           /\ rt.highMidiRef = Null
    /\ rt.stageRef = "done" <=> isRangeComplete(rt.rangeResult)
    /\ rt.stageRef = "done" =>
           /\ rt.rangeResult.lowMidi = rt.lowMidiRef
           /\ rt.rangeResult.highMidi = rt.highMidiRef
    /\ rt.testInstruction # "did_not_complete"
    /\ hist.result # "did_not_complete"

C35_Witness ==
    /\ rt.stageRef = "done"
    /\ isRangeComplete(rt.rangeResult)
    /\ rt.rangeResult.lowMidi = 5700
    /\ rt.rangeResult.highMidi = 6002
    /\ rt.rangeResult.comfortLowMidi >= 5700
    /\ rt.rangeResult.comfortHighMidi <= 6002
    /\ hist.op = "pitch_ok"
    /\ hist.result = "finished"

\* stopStream has completed, and no start has followed.
Stopped ==
    /\ poll.pollTimerRef = Null
    /\ status \in {"audio_stopped", "stop_failed"}

\* C36: once stopStream has completed, the stage, the RangeResult and the
\* stability window change only by the next start or reset.
C36_StoppedCaptureIsFrozen ==
    [][(Stopped /\ hist'.op \notin {"start", "reset"}) =>
           /\ rt'.stageRef = rt.stageRef
           /\ rt'.rangeResult = rt.rangeResult
           /\ rt'.stableRef = rt.stableRef]_vars

\* A step of a startRangeTest call that does not start the test: the click,
\* the end of stop_stream, or the failure of start_stream.
StartCallStep ==
    /\ \/ flows'["start_stopping"] # flows["start_stopping"]
       \/ flows'["start_starting"] # flows["start_starting"]
    /\ hist'.op # "start"

\* start_stream fails in startRangeTest.
StartFails ==
    /\ flows'["start_starting"] < flows["start_starting"]
    /\ hist'.op # "start"

\* C37: when start_stream fails in startRangeTest, polling is stopped, the
\* status reports the failure, and no step of the call has changed the
\* range-test state.
C37_FailedStartKeepsTest ==
    [][/\ StartCallStep => rt' = rt
       /\ StartFails =>
              /\ poll'.pollTimerRef = Null
              /\ status' = "start_failed"
              /\ status' \in FailureStatuses]_vars

C37_Witness ==
    /\ status = "start_failed"
    /\ poll.pollTimerRef = Null
    /\ Pending = 0
    /\ rt.stageRef = "capture_high"
    /\ rt.rangeResult.lowMidi = 5700
    /\ rt.stableRef.samples # <<>>

\* C38: once every loadRecommendations call has finished, the list on the
\* Recommendations page is the one of the call made last, which read the
\* RangeResult as it is.
C38_LatestLoadWins ==
    (/\ ui.activePage = "Recommendations"
     /\ ui.load = NoLoad
     /\ ui.other = NoLoad)
        => ui.last.range = rt.rangeResult

\* A candidate pitch is put to completeStageWithMidi during CaptureHigh.
HighCandidate ==
    /\ rt.stageRef = "capture_high"
    /\ hist'.op = "pitch_ok"
    /\ hist'.path \in {"hold", "fast_pass"}

\* C39: whenever a candidate pitch is put to completeStageWithMidi during
\* CaptureHigh, at least 250 ms have passed since the stage was entered, so
\* the minimum-dwell test (less than 200 ms) never turns a candidate down.
C39_DwellGuardNeverRejects ==
    [][HighCandidate =>
           /\ now' - rt.stageEnteredAtRef >= CONFIDENCE_PASS_MS
           /\ hist'.result # "too_early"]_vars

C39_Witness ==
    /\ rt.stageRef = "capture_high"
    /\ hist.op = "pitch_ok"
    /\ hist.path = "fast_pass"
    /\ hist.result = "too_close"
    /\ now - rt.stageEnteredAtRef = CONFIDENCE_PASS_MS

====
